---- MODULE Spec2Model ----
(***************************************************************************)
(* Model of telegraf/nexus_traffic_monitor_high_frequency.py: the probe    *)
(* sequence of connect_and_pull_stats, the parse_ extractors that merge    *)
(* payloads into stats_dict, and the line-protocol output.                 *)
(*                                                                         *)
(* A Python str is a sequence of one-character strings, so that `in`,      *)
(* find, slicing, replace, lower and the regular expressions of the source *)
(* are computed and not assumed.  A Python dict that the code iterates in  *)
(* insertion order is a sequence of [k, v] entries (OPut, OGet); a dict    *)
(* that is only indexed or iterated sorted is a function (Put, Get).       *)
(***************************************************************************)
EXTENDS Integers, Sequences, FiniteSets, TLC

VARIABLES
    pc,                 \* where main() is; "extract" under SpecX, the next extractor under SpecP, SpecB
    user_args,          \* the -burst, -pfcwd and -bufferstats switches
    n9k_mo_dict,        \* the ordered endpoint list
    stats_dict,         \* switch_ip -> per_switch_stats_dict
    response_time_dict, \* switch_ip -> list of timing records
    cur,                \* position of the for loop over switch_dict
    idx,                \* connect_and_pull_stats: idx
    auth_cookie,        \* connect_and_pull_stats: auth_cookie
    nxapi_ep,           \* connect_and_pull_stats: nxapi_ep
    dispatched,         \* history: every request sent, in order
    outcome,            \* history: switch_ip -> how its probe sequence ended
    output,             \* switch_ip -> the printed lines, or NotPrinted
    trace,              \* history: keys resolved and modTs writes of the extractors
    called,             \* SpecX, SpecP, SpecB: the extractors already applied in this cycle
    fed,                \* SpecX, SpecP, SpecB: the rows handed to extractors in this cycle
    faults,             \* deviations from the regular run used so far
    time_output         \* main: the entries of the response time summary

vars == <<pc, user_args, n9k_mo_dict, stats_dict, response_time_dict, cur, idx,
          auth_cookie, nxapi_ep, dispatched, outcome, output, trace, called, fed, faults, time_output>>

(***************************************************************************)
(* Bounds of the model.                                                    *)
(***************************************************************************)
\* rows handed to the extractors in one cycle under SpecX
MaxRows == 3
\* failed, timed-out or malformed exchanges in one run under Spec
MaxFaults == 1

(***************************************************************************)
(* Python values.                                                          *)
(***************************************************************************)
\* None; no str equals it
NoneVal == <<"None">>
s_None == <<"N","o","n","e">>
\* str(x)
Str(x) == IF x = NoneVal THEN s_None ELSE x

Min(a, b) == IF a < b THEN a ELSE b
Max(a, b) == IF a > b THEN a ELSE b

\* s[i:i+len(sub)] == sub, i counted from 1
IsAt(s, sub, i) == i + Len(sub) - 1 <= Len(s) /\ SubSeq(s, i, i + Len(sub) - 1) = sub
\* sub in s
Contains(s, sub) == \E i \in 1..(Len(s) - Len(sub) + 1) : IsAt(s, sub, i)
\* s.find(sub): the first offset counted from 0, or -1
Find(s, sub) ==
    IF Contains(s, sub)
    THEN (CHOOSE i \in 1..Len(s) : IsAt(s, sub, i) /\ \A j \in 1..(i - 1) : ~IsAt(s, sub, j)) - 1
    ELSE -1
\* s[a:b] with a >= 0; a negative b counts from the end
PySlice(s, a, b) ==
    LET n  == Len(s)
        bb == IF b < 0 THEN Max(b + n, 0) ELSE Min(b, n)
        aa == Min(a, n)
    IN  IF aa >= bb THEN <<>> ELSE SubSeq(s, aa + 1, bb)

RECURSIVE Replace(_, _, _)
\* s.replace(old, new), old not empty
Replace(s, old, new) ==
    IF Len(s) < Len(old) THEN s
    ELSE IF IsAt(s, old, 1)
         THEN new \o Replace(SubSeq(s, Len(old) + 1, Len(s)), old, new)
         ELSE <<Head(s)>> \o Replace(Tail(s), old, new)

Whitespace == {" ", "\t", "\n", "\r"}
RECURSIVE LStrip(_)
LStrip(s) == IF s # <<>> /\ Head(s) \in Whitespace THEN LStrip(Tail(s)) ELSE s
RECURSIVE RStrip(_)
RStrip(s) == IF s # <<>> /\ s[Len(s)] \in Whitespace THEN RStrip(SubSeq(s, 1, Len(s) - 1)) ELSE s
\* s.strip()
Strip(s) == RStrip(LStrip(s))

Upper == <<"A","B","C","D","E","F","G","H","I","J","K","L","M","N","O","P","Q","R","S","T","U","V","W","X","Y","Z">>
Lower == <<"a","b","c","d","e","f","g","h","i","j","k","l","m","n","o","p","q","r","s","t","u","v","w","x","y","z">>
LowerChar(c) == IF \E i \in 1..26 : Upper[i] = c THEN Lower[CHOOSE i \in 1..26 : Upper[i] = c] ELSE c
\* s.lower()
PyLower(s) == [i \in 1..Len(s) |-> LowerChar(s[i])]

\* {} ; d[k] = v ; d.get(k) for a dict that is indexed only
EmptyDict == <<>>
Put(d, k, v) == [x \in (DOMAIN d) \cup {k} |-> IF x = k THEN v ELSE d[x]]
Get(d, k) == IF k \in DOMAIN d THEN d[k] ELSE NoneVal
\* d[k] if k in d, else the {} the code stores first
Sub(d, k) == IF k \in DOMAIN d THEN d[k] ELSE EmptyDict

\* the same for a dict iterated in insertion order
OKeys(d) == {d[i].k : i \in 1..Len(d)}
OHas(d, k) == k \in OKeys(d)
OGet(d, k) == d[CHOOSE i \in 1..Len(d) : d[i].k = k].v
OPut(d, k, v) ==
    IF OHas(d, k) THEN [i \in 1..Len(d) |-> IF d[i].k = k THEN [k |-> k, v |-> v] ELSE d[i]]
    ELSE Append(d, [k |-> k, v |-> v])
OSub(d, k) == IF OHas(d, k) THEN OGet(d, k) ELSE EmptyDict

\* list.insert(i, x)
Insert(l, i, x) ==
    IF i >= Len(l) THEN Append(l, x)
    ELSE SubSeq(l, 1, i) \o <<x>> \o SubSeq(l, i + 1, Len(l))

(***************************************************************************)
(* Interface identity.                                                     *)
(***************************************************************************)
s_mgmt == <<"m","g","m","t">>
s_lo == <<"l","o">>
s_svi == <<"s","v","i">>
s_dot == <<".">>
s_lbr == <<"[">>
s_rbr == <<"]">>
s_Ethernet == <<"E","t","h","e","r","n","e","t">>
s_eth == <<"e","t","h">>
s_Eth == <<"E","t","h">>

\* 'mgmt' in dn or 'lo' in dn or 'svi' in dn or '.' in dn
\* (ExcludedNoSub: the same without the sub-interface test)
ExcludedNoSub(dn) ==
    Contains(dn, s_mgmt) \/ Contains(dn, s_lo) \/ Contains(dn, s_svi)
Excluded(dn) ==
    Contains(dn, s_mgmt) \/ Contains(dn, s_lo) \/ Contains(dn, s_svi) \/ Contains(dn, s_dot)

\* dn[dn.find('[') + 1 : dn.find(']')]
BracketId(dn) == PySlice(dn, Find(dn, s_lbr) + 1, Find(dn, s_rbr))

(***************************************************************************)
(* Extractors.  An extractor loops over the rows of its payload; the       *)
(* accumulator holds the per_switch_stats_dict being mutated (st), whether *)
(* an exception has left the extractor (raised), and the history of the    *)
(* interface keys it resolved and of its writes of meta.modTs (trace).     *)
(* A row is the `attributes` dict of one imdata entry.                     *)
(***************************************************************************)
\* intf_dict[interface], or the {} stored under it on first reference
IntfRec(st, interface) == OSub(st["intf"], interface)
\* the per_switch_stats_dict with intf_dict[interface] = rec
WithIntf(st, interface, rec) == Put(st, "intf", OPut(st["intf"], interface, rec))

KeyEvent(by, raw, key) == [ev |-> "key", by |-> by, raw |-> raw, key |-> key]
ModTsEvent(by, key, val) == [ev |-> "modTs", by |-> by, raw |-> val, key |-> key]

\* one row of parse_intf
parse_intf_row(acc, attributes) ==
    IF "dn" \notin DOMAIN attributes THEN acc
    ELSE IF Excluded(attributes["dn"]) THEN acc
    ELSE IF "id" \notin DOMAIN attributes THEN acc
    ELSE
      LET interface == attributes["id"]
          per0 == IntfRec(acc.st, interface)
          data == Put(Sub(per0, "data"), "description", Get(attributes, "descr"))
          meta == Put(Put(Put(Sub(per0, "meta"),
                      "admin_state", Get(attributes, "adminSt")),
                      "oper_state", Get(attributes, "operSt")),
                      "oper_mode", Get(attributes, "mode"))
          per1 == Put(Put(per0, "data", data), "meta", meta)
      IN  [acc EXCEPT !.st = WithIntf(@, interface, per1),
                      !.trace = Append(@, KeyEvent("parse_intf", interface, interface))]

RECURSIVE parse_intf(_, _)
parse_intf(imdata_list, acc) ==
    IF imdata_list = <<>> \/ acc.raised THEN acc
    ELSE parse_intf(Tail(imdata_list), parse_intf_row(acc, Head(imdata_list)))

\* one row of parse_rmonIfHCIn
parse_rmonIfHCIn_row(acc, attributes) ==
    IF "dn" \notin DOMAIN attributes THEN acc
    ELSE IF Excluded(attributes["dn"]) THEN acc
    ELSE
      LET interface == BracketId(attributes["dn"])
          per0 == IntfRec(acc.st, interface)
          data == Put(Put(Put(Put(Sub(per0, "data"),
                      "rx_broadcast_pkts", Get(attributes, "broadcastPkts")),
                      "rx_multicast_pkts", Get(attributes, "multicastPkts")),
                      "rx_ucast_pkts", Get(attributes, "ucastPkts")),
                      "rx_bytes", Get(attributes, "octets"))
          per1 == Put(per0, "data", data)
          ev   == Append(acc.trace, KeyEvent("parse_rmonIfHCIn", attributes["dn"], interface))
      IN  IF "meta" \notin DOMAIN per1
          THEN \* per_intf_dict['meta'] raises KeyError
               [acc EXCEPT !.st = WithIntf(@, interface, per1), !.trace = ev, !.raised = TRUE]
          ELSE [acc EXCEPT
                  !.st = WithIntf(@, interface,
                             Put(per1, "meta", Put(per1["meta"], "modTs", Get(attributes, "modTs")))),
                  !.trace = Append(ev, ModTsEvent("parse_rmonIfHCIn", interface,
                                                  Get(attributes, "modTs")))]

RECURSIVE parse_rmonIfHCIn(_, _)
parse_rmonIfHCIn(imdata_list, acc) ==
    IF imdata_list = <<>> \/ acc.raised THEN acc
    ELSE parse_rmonIfHCIn(Tail(imdata_list), parse_rmonIfHCIn_row(acc, Head(imdata_list)))

\* (parse_rmonIfHCOut_row_rx: the egress row with octets stored as rx_bytes)
parse_rmonIfHCOut_row_rx(acc, attributes) ==
    IF "dn" \notin DOMAIN attributes THEN acc
    ELSE IF Excluded(attributes["dn"]) THEN acc
    ELSE
      LET interface == BracketId(attributes["dn"])
          per0 == IntfRec(acc.st, interface)
          data == Put(Put(Put(Put(Sub(per0, "data"),
                      "tx_broadcast_pkts", Get(attributes, "broadcastPkts")),
                      "tx_multicast_pkts", Get(attributes, "multicastPkts")),
                      "tx_ucast_pkts", Get(attributes, "ucastPkts")),
                      "rx_bytes", Get(attributes, "octets"))
      IN  [acc EXCEPT !.st = WithIntf(@, interface, Put(per0, "data", data)),
                      !.trace = Append(@, KeyEvent("parse_rmonIfHCOut", attributes["dn"], interface))]

\* one row of parse_rmonIfHCOut
parse_rmonIfHCOut_row(acc, attributes) ==
    IF "dn" \notin DOMAIN attributes THEN acc
    ELSE IF Excluded(attributes["dn"]) THEN acc
    ELSE
      LET interface == BracketId(attributes["dn"])
          per0 == IntfRec(acc.st, interface)
          data == Put(Put(Put(Put(Sub(per0, "data"),
                      "tx_broadcast_pkts", Get(attributes, "broadcastPkts")),
                      "tx_multicast_pkts", Get(attributes, "multicastPkts")),
                      "tx_ucast_pkts", Get(attributes, "ucastPkts")),
                      "tx_bytes", Get(attributes, "octets"))
      IN  [acc EXCEPT !.st = WithIntf(@, interface, Put(per0, "data", data)),
                      !.trace = Append(@, KeyEvent("parse_rmonIfHCOut", attributes["dn"], interface))]

RECURSIVE parse_rmonIfHCOut(_, _)
parse_rmonIfHCOut(imdata_list, acc) ==
    IF imdata_list = <<>> \/ acc.raised THEN acc
    ELSE parse_rmonIfHCOut(Tail(imdata_list), parse_rmonIfHCOut_row(acc, Head(imdata_list)))

(***************************************************************************)
(* Numbers in text.                                                        *)
(***************************************************************************)
Digits == <<"0","1","2","3","4","5","6","7","8","9">>
IsDigit(c) == \E i \in 1..10 : Digits[i] = c
DigitVal(c) == (CHOOSE i \in 1..10 : Digits[i] = c) - 1

RECURSIVE DigitRun(_, _)
\* how many digits s holds from position i on
DigitRun(s, i) == IF i <= Len(s) /\ IsDigit(s[i]) THEN 1 + DigitRun(s, i + 1) ELSE 0

RECURSIVE SpaceRun(_, _)
\* how many blanks s holds from position i on
SpaceRun(s, i) == IF i <= Len(s) /\ s[i] = " " THEN 1 + SpaceRun(s, i + 1) ELSE 0

RECURSIVE DigitsToInt(_)
\* int(s) for a str of digits ('' gives 0)
DigitsToInt(s) == IF s = <<>> THEN 0 ELSE DigitsToInt(SubSeq(s, 1, Len(s) - 1)) * 10 + DigitVal(s[Len(s)])

RECURSIVE NatToStr(_)
NatToStr(n) == IF n < 10 THEN <<Digits[n + 1]>> ELSE NatToStr(n \div 10) \o <<Digits[(n % 10) + 1]>>
\* str(n) for an int
IntToStr(n) == IF n < 0 THEN <<"-">> \o NatToStr(0 - n) ELSE NatToStr(n)

\* the length of the match of [-+]?\d*\.\d+|\d+ at the head of s, 0 when none
NumMatchLen(s) ==
    LET sgn == IF s # <<>> /\ s[1] \in {"-", "+"} THEN 1 ELSE 0
        d   == DigitRun(s, sgn + 1)
        e   == IF sgn + d + 1 <= Len(s) /\ s[sgn + d + 1] = "." THEN DigitRun(s, sgn + d + 2) ELSE 0
    IN  IF e > 0 THEN sgn + d + 1 + e ELSE DigitRun(s, 1)

RECURSIVE NumFindallJoined(_)
\* ''.join(re.findall(r"[-+]?\d*\.\d+|\d+", s))
NumFindallJoined(s) ==
    IF s = <<>> THEN <<>>
    ELSE LET n == NumMatchLen(s)
         IN  IF n > 0 THEN SubSeq(s, 1, n) \o NumFindallJoined(SubSeq(s, n + 1, Len(s)))
             ELSE NumFindallJoined(Tail(s))

\* whether float(s) accepts s: sign, digits, at most one point, a digit somewhere
IsFloatText(s) ==
    LET sgn == IF s # <<>> /\ s[1] \in {"-", "+"} THEN 1 ELSE 0
        d   == DigitRun(s, sgn + 1)
        pt  == IF sgn + d + 1 <= Len(s) /\ s[sgn + d + 1] = "." THEN 1 ELSE 0
        e   == IF pt = 1 THEN DigitRun(s, sgn + d + 2) ELSE 0
    IN  d + e > 0 /\ sgn + d + pt + e = Len(s)

\* int(float(s) * 10^k) for a text float(s) accepts, in exact decimal arithmetic
ScaledInt(s, k) ==
    LET sgn  == IF s[1] \in {"-", "+"} THEN 1 ELSE 0
        d    == DigitRun(s, sgn + 1)
        e    == IF sgn + d + 1 <= Len(s) THEN DigitRun(s, sgn + d + 2) ELSE 0
        frac == SubSeq(s, sgn + d + 2, sgn + d + 1 + e)
        kept == SubSeq(frac \o [i \in 1..k |-> "0"], 1, k)
        mag  == DigitsToInt(SubSeq(s, sgn + 1, sgn + d) \o kept)
    IN  IF s[1] = "-" THEN 0 - mag ELSE mag

\* get_float_from_string(s), truncated by the int() every caller applies:
\* [val |-> int(float(...)), raised |-> float() raised ValueError]
get_float_from_string(s) ==
    LET ret == NumFindallJoined(s)
    IN  IF Len(ret) = 0 THEN [val |-> 0, raised |-> FALSE]
        ELSE IF ~IsFloatText(ret) THEN [val |-> 0, raised |-> TRUE]
        ELSE [val |-> ScaledInt(ret, 0), raised |-> FALSE]

\* get_speed_num_from_string(speed); None has no isdigit (AttributeError)
get_speed_num_from_string(speed) ==
    IF speed = NoneVal THEN [val |-> 0, raised |-> TRUE]
    ELSE IF speed # <<>> /\ DigitRun(speed, 1) = Len(speed)
         THEN [val |-> DigitsToInt(speed), raised |-> FALSE]
         ELSE get_float_from_string(speed)

s_up == <<"u","p">>

\* one row of parse_ethpmPhysIf
parse_ethpmPhysIf_row(acc, attributes) ==
    IF "dn" \notin DOMAIN attributes THEN acc
    ELSE IF Excluded(attributes["dn"]) THEN acc
    ELSE
      LET interface == BracketId(attributes["dn"])
          per0  == IntfRec(acc.st, interface)
          meta  == Put(Sub(per0, "meta"), "oper_state", Get(attributes, "operSt"))
          per1  == Put(Put(per0, "meta", meta), "data", Sub(per0, "data"))
          speed == get_speed_num_from_string(Get(attributes, "operSpeed"))
          data2 == Put(per1["data"], "oper_speed", IntToStr(speed.val))
          per2  == Put(per1, "data", data2)
          data3 == Put(data2, "down_reason", Get(attributes, "operStQual"))
          ev    == Append(acc.trace, KeyEvent("parse_ethpmPhysIf", attributes["dn"], interface))
      IN  IF speed.raised
          THEN [acc EXCEPT !.st = WithIntf(@, interface, per1), !.trace = ev, !.raised = TRUE]
          ELSE IF Get(attributes, "operSt") = NoneVal
          THEN \* 'up' not in None raises TypeError
               [acc EXCEPT !.st = WithIntf(@, interface, per2), !.trace = ev, !.raised = TRUE]
          ELSE IF ~Contains(attributes["operSt"], s_up)
          THEN [acc EXCEPT !.st = WithIntf(@, interface, Put(per2, "data", data3)), !.trace = ev]
          ELSE [acc EXCEPT !.st = WithIntf(@, interface, per2), !.trace = ev]

RECURSIVE parse_ethpmPhysIf(_, _)
parse_ethpmPhysIf(imdata_list, acc) ==
    IF imdata_list = <<>> \/ acc.raised THEN acc
    ELSE parse_ethpmPhysIf(Tail(imdata_list), parse_ethpmPhysIf_row(acc, Head(imdata_list)))

\* the (data_dict key, attribute) pairs parse_rmonEtherStats copies
EtherStatsFields == <<
    <<"rx_crc", "cRCAlignErrors">>, <<"rx_crc_stomped", "stompedCRCAlignErrors">>,
    <<"tx_jumbo", "txOversizePkts">>, <<"rx_jumbo", "rxOversizePkts">>,
    <<"rxPkts1024to1518Octets", "rxPkts1024to1518Octets">>,
    <<"rxPkts512to1023Octets", "rxPkts512to1023Octets">>,
    <<"rxPkts256to511Octets", "rxPkts256to511Octets">>,
    <<"rxPkts128to255Octets", "rxPkts128to255Octets">>,
    <<"rxPkts65to127Octets", "rxPkts65to127Octets">>,
    <<"rxPkts64Octets", "rxPkts64Octets">>,
    <<"txPkts1024to1518Octets", "txPkts1024to1518Octets">>,
    <<"txPkts512to1023Octets", "txPkts512to1023Octets">>,
    <<"txPkts256to511Octets", "txPkts256to511Octets">>,
    <<"txPkts128to255Octets", "txPkts128to255Octets">>,
    <<"txPkts65to127Octets", "txPkts65to127Octets">>,
    <<"txPkts64Octets", "txPkts64Octets">> >>

RECURSIVE CopyFields(_, _, _)
\* for each pair (key, attribute): d[key] = attributes.get(attribute)
CopyFields(d, attributes, pairs) ==
    IF pairs = <<>> THEN d
    ELSE CopyFields(Put(d, Head(pairs)[1], Get(attributes, Head(pairs)[2])), attributes, Tail(pairs))

\* one row of parse_rmonEtherStats
parse_rmonEtherStats_row(acc, attributes) ==
    IF "dn" \notin DOMAIN attributes THEN acc
    ELSE IF Excluded(attributes["dn"]) THEN acc
    ELSE
      LET interface == BracketId(attributes["dn"])
          per0 == IntfRec(acc.st, interface)
          data == CopyFields(Sub(per0, "data"), attributes, EtherStatsFields)
      IN  [acc EXCEPT !.st = WithIntf(@, interface, Put(per0, "data", data)),
                      !.trace = Append(@, KeyEvent("parse_rmonEtherStats", attributes["dn"], interface))]

RECURSIVE parse_rmonEtherStats(_, _)
parse_rmonEtherStats(imdata_list, acc) ==
    IF imdata_list = <<>> \/ acc.raised THEN acc
    ELSE parse_rmonEtherStats(Tail(imdata_list), parse_rmonEtherStats_row(acc, Head(imdata_list)))

\* the (per_out_queue_dict key, attribute) pairs parse_ipqosQueuingStats copies
QueueFields == <<
    <<"tx_bytes", "txBytes">>, <<"tx_pkts", "txPackets">>,
    <<"drop_bytes", "dropBytes">>, <<"drop_pkts", "dropPackets">>,
    <<"rx_pause", "pfcRxPpp">>, <<"tx_pause", "pfcTxPpp">>,
    <<"rand_drop_bytes", "randDropBytes">>, <<"rand_drop_pkts", "randDropPackets">>,
    <<"ecn_marked_pkts", "randEcnMarkedPackets">>, <<"q_depth", "ucCurrQueueDepth">>,
    <<"modTs", "modTs">> >>

\* one row of parse_ipqosQueuingStats
parse_ipqosQueuingStats_row(acc, attributes) ==
    IF "dn" \notin DOMAIN attributes THEN acc
    ELSE IF Excluded(attributes["dn"]) THEN acc
    ELSE
      LET interface == BracketId(attributes["dn"])
          per0 == IntfRec(acc.st, interface)
          per1 == Put(per0, "out_queue", Sub(per0, "out_queue"))
          ev   == Append(acc.trace, KeyEvent("parse_ipqosQueuingStats", attributes["dn"], interface))
      IN  IF "cmapName" \notin DOMAIN attributes
          THEN [acc EXCEPT !.st = WithIntf(@, interface, per1), !.trace = ev]
          ELSE LET queue_name == attributes["cmapName"]
                   q == CopyFields(OSub(per1["out_queue"], queue_name), attributes, QueueFields)
               IN  [acc EXCEPT
                      !.st = WithIntf(@, interface,
                                 Put(per1, "out_queue", OPut(per1["out_queue"], queue_name, q))),
                      !.trace = ev]

RECURSIVE parse_ipqosQueuingStats(_, _)
parse_ipqosQueuingStats(imdata_list, acc) ==
    IF imdata_list = <<>> \/ acc.raised THEN acc
    ELSE parse_ipqosQueuingStats(Tail(imdata_list),
                                 parse_ipqosQueuingStats_row(acc, Head(imdata_list)))

s_tatio == <<"t","a","t","i","o">>
s_ridg == <<"r","i","d","g">>
s_oute == <<"o","u","t","e">>
s_linux == <<"l","i","n","u","x">>
s_fab == <<"f","a","b">>
s_en == <<"e","n">>
s_host == <<"h","o","s","t">>
s_switch == <<"s","w","i","t","c","h">>
s_other == <<"o","t","h","e","r">>

\* a character \w matches
IsWordChar(c) == IsDigit(c) \/ c = "_" \/ (\E i \in 1..26 : Upper[i] = c \/ Lower[i] = c)
RECURSIVE WordRun(_, _)
WordRun(s, i) == IF i <= Len(s) /\ IsWordChar(s[i]) THEN 1 + WordRun(s, i + 1) ELSE 0

RECURSIVE PortDescFindallJoined(_)
\* ''.join(re.findall("fab\w+|en\w+", s))
PortDescFindallJoined(s) ==
    IF s = <<>> THEN <<>>
    ELSE LET n == IF IsAt(s, s_fab, 1) /\ WordRun(s, 4) > 0 THEN 3 + WordRun(s, 4)
                  ELSE IF IsAt(s, s_en, 1) /\ WordRun(s, 3) > 0 THEN 2 + WordRun(s, 3)
                  ELSE 0
         IN  IF n > 0 THEN SubSeq(s, 1, n) \o PortDescFindallJoined(SubSeq(s, n + 1, Len(s)))
             ELSE PortDescFindallJoined(Tail(s))

\* one row of parse_lldpAdjEp
parse_lldpAdjEp_row(acc, attributes) ==
    IF "dn" \notin DOMAIN attributes THEN acc
    ELSE IF Excluded(attributes["dn"]) THEN acc
    ELSE
      LET interface == BracketId(attributes["dn"])
          per0    == IntfRec(acc.st, interface)
          meta0   == Sub(per0, "meta")
          encap   == Get(attributes, "enCap")
          sysdesc == Get(attributes, "sysDesc")
          IsHost  == Contains(encap, s_tatio) \/ Contains(PyLower(sysdesc), s_linux)
          Peer(m) == Put(Put(m, "peer", Get(attributes, "mgmtIp")),
                         "peer_name", Get(attributes, "sysName"))
          With(m) == WithIntf(acc.st, interface, Put(per0, "meta", m))
          ev      == Append(acc.trace, KeyEvent("parse_lldpAdjEp", attributes["dn"], interface))
      IN  IF encap = NoneVal \/ (~Contains(encap, s_tatio) /\ sysdesc = NoneVal)
          THEN \* 'tatio' in None, or re.search on None: TypeError
               [acc EXCEPT !.st = With(meta0), !.trace = ev, !.raised = TRUE]
          ELSE IF IsHost
          THEN IF Get(attributes, "portDesc") = NoneVal
               THEN [acc EXCEPT !.st = With(Put(meta0, "peer_type", s_host)),
                                !.trace = ev, !.raised = TRUE]
               ELSE [acc EXCEPT
                       !.st = With(Peer(Put(Put(meta0, "peer_type", s_host),
                                   "peer_intf", PortDescFindallJoined(attributes["portDesc"])))),
                       !.trace = ev]
          ELSE IF Contains(encap, s_ridg) \/ Contains(encap, s_oute)
          THEN IF Get(attributes, "portIdV") = NoneVal
               THEN [acc EXCEPT !.st = With(Put(meta0, "peer_type", s_switch)),
                                !.trace = ev, !.raised = TRUE]
               ELSE [acc EXCEPT
                       !.st = With(Peer(Put(Put(meta0, "peer_type", s_switch),
                                   "peer_intf", Replace(attributes["portIdV"], s_Ethernet, s_eth)))),
                       !.trace = ev]
          ELSE [acc EXCEPT !.st = With(Put(meta0, "peer_type", s_other)), !.trace = ev]

RECURSIVE parse_lldpAdjEp(_, _)
parse_lldpAdjEp(imdata_list, acc) ==
    IF imdata_list = <<>> \/ acc.raised THEN acc
    ELSE parse_lldpAdjEp(Tail(imdata_list), parse_lldpAdjEp_row(acc, Head(imdata_list)))

(***************************************************************************)
(* Extractors of the switch's own attributes.  A row is one imdata entry:  *)
(* class name -> attr, where attr may hold "attributes".                   *)
(***************************************************************************)
RECURSIVE CapturesBefore(_, _)
\* ''.join(re.findall(r'(\d+)[ ]{1,}' + word, s))
CapturesBefore(s, word) ==
    IF s = <<>> THEN <<>>
    ELSE LET d  == DigitRun(s, 1)
             sp == SpaceRun(s, d + 1)
         IN  IF d > 0 /\ sp > 0 /\ IsAt(s, word, d + sp + 1)
             THEN SubSeq(s, 1, d) \o CapturesBefore(SubSeq(s, d + sp + Len(word) + 1, Len(s)), word)
             ELSE CapturesBefore(Tail(s), word)

s_day == <<"d","a","y">>
s_hour == <<"h","o","u","r">>
s_min == <<"m","i","n">>
s_sec == <<"s","e","c">>
HOURS_IN_DAY == 24
MINUTES_IN_HOUR == 60
SECONDS_IN_MINUTE == 60

\* uptime_secs of parse_sysmgrShowVersion for its kernelUptime text
UptimeSecs(ker_uptime_str) ==
    LET days == get_float_from_string(CapturesBefore(ker_uptime_str, s_day)).val
        hrs  == get_float_from_string(CapturesBefore(ker_uptime_str, s_hour)).val
        mins == get_float_from_string(CapturesBefore(ker_uptime_str, s_min)).val
        secs == get_float_from_string(CapturesBefore(ker_uptime_str, s_sec)).val
    IN  secs + mins * SECONDS_IN_MINUTE + hrs * MINUTES_IN_HOUR * SECONDS_IN_MINUTE
             + days * HOURS_IN_DAY * MINUTES_IN_HOUR * SECONDS_IN_MINUTE

\* one imdata entry of parse_sysmgrShowVersion
parse_sysmgrShowVersion_row(acc, imdata, mo) ==
    IF mo \notin DOMAIN imdata THEN [acc EXCEPT !.raised = TRUE]
    ELSE IF "attributes" \notin DOMAIN imdata[mo] THEN acc
    ELSE LET attributes == imdata[mo]["attributes"]
             st1 == Put(acc.st, "sys_ver", Get(attributes, "nxosVersion"))
         IN  IF Get(attributes, "kernelUptime") = NoneVal
             THEN [acc EXCEPT !.st = st1, !.raised = TRUE]
             ELSE [acc EXCEPT !.st = Put(st1, "kernel_uptime",
                                         IntToStr(UptimeSecs(attributes["kernelUptime"])))]

RECURSIVE parse_sysmgrShowVersion(_, _, _)
parse_sysmgrShowVersion(imdata_list, acc, mo) ==
    IF imdata_list = <<>> \/ acc.raised THEN acc
    ELSE parse_sysmgrShowVersion(Tail(imdata_list),
                                 parse_sysmgrShowVersion_row(acc, Head(imdata_list), mo), mo)

RECURSIVE CopyAttributes(_, _, _, _)
\* the loop shared by parse_pieCpuUsage, parse_nwVdc, parse_eqptCh and
\* parse_pieMemoryUsage: per_switch_stats_dict[key] = attributes.get(attribute)
CopyAttributes(imdata_list, acc, mo, pairs) ==
    IF imdata_list = <<>> \/ acc.raised THEN acc
    ELSE LET imdata == Head(imdata_list)
             next == IF mo \notin DOMAIN imdata THEN [acc EXCEPT !.raised = TRUE]
                     ELSE IF "attributes" \notin DOMAIN imdata[mo] THEN acc
                     ELSE [acc EXCEPT !.st = CopyFields(@, imdata[mo]["attributes"], pairs)]
         IN  CopyAttributes(Tail(imdata_list), next, mo, pairs)

parse_pieCpuUsage(imdata_list, acc, mo) ==
    CopyAttributes(imdata_list, acc, mo,
                   << <<"cpu_user", "userPercent">>, <<"cpu_kernel", "kernelPercent">> >>)
parse_nwVdc(imdata_list, acc, mo) ==
    CopyAttributes(imdata_list, acc, mo, << <<"switchname", "name">> >>)
parse_eqptCh(imdata_list, acc, mo) ==
    CopyAttributes(imdata_list, acc, mo, << <<"model", "model">> >>)
parse_pieMemoryUsage(imdata_list, acc, mo) ==
    CopyAttributes(imdata_list, acc, mo,
                   << <<"mem_total", "memTotal">>, <<"mem_used", "memUsed">> >>)

(***************************************************************************)
(* Extractors of command output.  What nxapi_connect returns is a str,     *)
(* [type |-> "str", text |-> ...]; a decoded response is a dict,           *)
(* [type |-> "dict", d |-> ...].  JSON null is JNull.                      *)
(***************************************************************************)
s_error == <<"e","r","r","o","r">>
s_result == <<"r","e","s","u","l","t">>
s_if_name_str == <<"i","f","_","n","a","m","e","_","s","t","r">>
s_TABLE_qosgrp_stats == <<"T","A","B","L","E","_","q","o","s","g","r","p","_","s","t","a","t","s">>
s_q_stat_type == <<"q","-","s","t","a","t","-","t","y","p","e">>
s_q_dash == <<"q","-">>
s_qosgrp == <<"q","o","s","g","r","p">>
s_us == <<"u","s">>
s_ms == <<"m","s">>
s_s == <<"s">>
s_N == <<"N">>

JNull == [json_null |-> TRUE]
IsJNull(x) == "json_null" \in DOMAIN x
Unbound == <<"Unbound">>

\* parse_nxapi_common(json_data, mo): [ret |-> "none" | "rows" | "raise", rows |-> ROW_module]
\* `in` on a str is a substring test, and indexing a str with 'result' raises TypeError
parse_nxapi_common(json_data) ==
    IF json_data.type = "str"
    THEN IF Contains(json_data.text, s_error) THEN [ret |-> "none", rows |-> EmptyDict]
         ELSE IF ~Contains(json_data.text, s_result) THEN [ret |-> "none", rows |-> EmptyDict]
         ELSE [ret |-> "raise", rows |-> EmptyDict]
    ELSE LET d == json_data.d
         IN  IF "error" \in DOMAIN d THEN [ret |-> "none", rows |-> EmptyDict]
             ELSE IF "result" \notin DOMAIN d THEN [ret |-> "none", rows |-> EmptyDict]
             ELSE IF IsJNull(d["result"]) THEN [ret |-> "none", rows |-> EmptyDict]
             ELSE IF "body" \notin DOMAIN d["result"] THEN [ret |-> "none", rows |-> EmptyDict]
             ELSE IF "TABLE_module" \notin DOMAIN d["result"]["body"]
                  THEN [ret |-> "none", rows |-> EmptyDict]
             ELSE IF "ROW_module" \notin DOMAIN d["result"]["body"]["TABLE_module"]
                  THEN [ret |-> "none", rows |-> EmptyDict]
             ELSE [ret |-> "rows", rows |-> d["result"]["body"]["TABLE_module"]["ROW_module"]]

\* the length of the match of (Eth.*?)[ ] (IGNORECASE) at the head of s, blank included;
\* 0 when none.  The dot matches no line break.
EthMatchLen(s) ==
    IF Len(s) >= 4 /\ PyLower(SubSeq(s, 1, 3)) = s_eth
       /\ \E j \in 4..Len(s) : s[j] = " " /\ \A i \in 4..(j - 1) : s[i] # "\n"
    THEN CHOOSE j \in 4..Len(s) : s[j] = " " /\ \A i \in 4..(j - 1) : s[i] \notin {" ", "\n"}
    ELSE 0

RECURSIVE EthFindallJoined(_)
\* ''.join(re.findall(r'(Eth.*?)[ ]', v, re.IGNORECASE))
EthFindallJoined(s) ==
    IF s = <<>> THEN <<>>
    ELSE LET n == EthMatchLen(s)
         IN  IF n > 0 THEN SubSeq(s, 1, n - 1) \o EthFindallJoined(SubSeq(s, n + 1, Len(s)))
             ELSE EthFindallJoined(Tail(s))

\* intf of parse_pfcqueuedetail for the text of an if_name_str column
PfcIntf(v) == Replace(Strip(EthFindallJoined(v)), s_Ethernet, s_eth)

RECURSIVE WdEntries(_, _)
\* for key, val in rs_dict.items(): wd_dict[key_short] = val, but for q-stat-type
WdEntries(wd_dict, items) ==
    IF items = <<>> THEN wd_dict
    ELSE WdEntries(IF Contains(Head(items).k, s_q_stat_type) THEN wd_dict
                   ELSE OPut(wd_dict, Replace(Head(items).k, s_q_dash, <<>>), Head(items).v),
                   Tail(items))

RECURSIVE WdRows(_, _)
\* for rs_dict in r_qos_s: ...
WdRows(wd_dict, r_qos_s) ==
    IF r_qos_s = <<>> THEN wd_dict
    ELSE WdRows(WdEntries(wd_dict, Head(r_qos_s)), Tail(r_qos_s))

\* the `if 'TABLE_qosgrp_stats' in k` block for one item of a row; acc.intf is
\* the local intf, and wd_dict is intf_dict[intf]['pfcwd'] whenever intf is bound
PfcTable(acc, v) ==
    IF "ROW_qosgrp_stats" \notin DOMAIN v THEN acc
    ELSE
      LET row_qos == v["ROW_qosgrp_stats"]
          HasRows == "TABLE_qosgrp_stats_entry" \in DOMAIN row_qos
                     /\ "ROW_qosgrp_stats_entry" \in DOMAIN row_qos["TABLE_qosgrp_stats_entry"]
      IN  IF acc.intf = Unbound
          THEN \* wd_dict['qosgrp'] = ..., or else intf in the logger.error call,
               \* raises UnboundLocalError
               [acc EXCEPT !.raised = TRUE]
          ELSE
            LET per0 == OGet(acc.st["intf"], acc.intf)
                wd0  == per0["pfcwd"]
                wd1  == IF "eq-qosgrp" \in DOMAIN row_qos
                        THEN OPut(wd0, s_qosgrp, Str(row_qos["eq-qosgrp"])) ELSE wd0
                wd2  == IF HasRows
                        THEN WdRows(wd1, row_qos["TABLE_qosgrp_stats_entry"]["ROW_qosgrp_stats_entry"])
                        ELSE wd1
            IN  [acc EXCEPT !.st = WithIntf(@, acc.intf, Put(per0, "pfcwd", wd2))]

\* one item (k, v) of one row of parse_pfcqueuedetail
PfcItem(acc, item) ==
    LET named == IF item.type = "str" /\ Contains(item.k, s_if_name_str) /\ Contains(item.v, s_Eth)
                 THEN LET intf == PfcIntf(item.v)
                          ev   == Append(acc.trace, KeyEvent("parse_pfcqueuedetail", item.v, intf))
                      IN  IF ~OHas(acc.st["intf"], intf)
                          THEN \* intf_dict[intf] raises KeyError
                               [acc EXCEPT !.intf = intf, !.trace = ev, !.raised = TRUE]
                          ELSE [acc EXCEPT
                                  !.intf = intf, !.trace = ev,
                                  !.st = WithIntf(@, intf, Put(OGet(@["intf"], intf), "pfcwd", <<>>))]
                 ELSE acc
    IN  IF named.raised THEN named
        ELSE IF item.type = "table" /\ Contains(item.k, s_TABLE_qosgrp_stats)
             THEN PfcTable(named, item.v)
             ELSE named

RECURSIVE PfcItems(_, _)
PfcItems(acc, items) ==
    IF items = <<>> \/ acc.raised THEN acc
    ELSE PfcItems(PfcItem(acc, Head(items)), Tail(items))

RECURSIVE PfcRows(_, _)
PfcRows(acc, rows) ==
    IF rows = <<>> \/ acc.raised THEN acc
    ELSE PfcRows(PfcItems(acc, Head(rows)), Tail(rows))

\* parse_pfcqueuedetail(json_data, per_switch_stats_dict, mo)
parse_pfcqueuedetail(json_data, acc) ==
    LET c == parse_nxapi_common(json_data)
    IN  IF c.ret = "raise" THEN [acc EXCEPT !.raised = TRUE]
        ELSE IF c.ret = "none" THEN acc
        ELSE IF "TABLE_queuing_interface" \notin DOMAIN c.rows THEN acc
        ELSE IF "ROW_queuing_interface" \notin DOMAIN c.rows["TABLE_queuing_interface"] THEN acc
        ELSE LET r == PfcRows([st |-> acc.st, raised |-> FALSE, trace |-> acc.trace, intf |-> Unbound],
                              c.rows["TABLE_queuing_interface"]["ROW_queuing_interface"])
             IN  [st |-> r.st, raised |-> r.raised, trace |-> r.trace]

\* the duration of a burst row in microseconds, as parse_burstdetect stores it:
\* [ok |-> a unit was recognised, raised |-> float() raised, val |-> dur_us]
BurstDuration(duration) ==
    IF Contains(duration, s_us)
    THEN [ok |-> TRUE, raised |-> FALSE, val |-> Strip(Replace(duration, s_us, <<>>))]
    ELSE IF Contains(duration, s_ms)
    THEN LET dur_ms == Strip(Replace(duration, s_ms, <<>>))
         IN  IF IsFloatText(dur_ms)
             THEN [ok |-> TRUE, raised |-> FALSE, val |-> IntToStr(ScaledInt(dur_ms, 3))]
             ELSE [ok |-> TRUE, raised |-> TRUE, val |-> <<>>]
    ELSE IF Contains(duration, s_s)
    THEN LET dur_s == Strip(Replace(duration, s_s, <<>>))
         IN  IF IsFloatText(dur_s)
             THEN [ok |-> TRUE, raised |-> FALSE, val |-> IntToStr(ScaledInt(dur_s, 6))]
             ELSE [ok |-> TRUE, raised |-> TRUE, val |-> <<>>]
    ELSE [ok |-> FALSE, raised |-> FALSE, val |-> <<>>]

\* b_dict of parse_burstdetect without its duration
BurstDict(row_dict) ==
    LET b1 == IF "queue" \in DOMAIN row_dict THEN Put(EmptyDict, "q", row_dict["queue"]) ELSE EmptyDict
        b2 == IF "threshold" \in DOMAIN row_dict THEN Put(b1, "start-depth", Str(row_dict["threshold"])) ELSE b1
        b3 == IF "end-depth" \in DOMAIN row_dict THEN Put(b2, "end-depth", Str(row_dict["end-depth"])) ELSE b2
        b4 == IF "peak" \in DOMAIN row_dict THEN Put(b3, "peak", Str(row_dict["peak"])) ELSE b3
    IN  IF "peak-time" \in DOMAIN row_dict THEN Put(b4, "peak-time", row_dict["peak-time"]) ELSE b4

\* one row of parse_burstdetect
parse_burstdetect_row(acc, row_dict) ==
    IF "if-str" \notin DOMAIN row_dict THEN acc
    ELSE
      LET intf == PyLower(row_dict["if-str"])
          ev   == Append(acc.trace, KeyEvent("parse_burstdetect", row_dict["if-str"], intf))
      IN  IF ~OHas(acc.st["intf"], intf)
          THEN \* intf_dict[intf] raises KeyError
               [acc EXCEPT !.trace = ev, !.raised = TRUE]
          ELSE
            LET per0   == OGet(acc.st["intf"], intf)
                b_list == IF "burst" \in DOMAIN per0 THEN per0["burst"] ELSE <<>>
                b_dict == BurstDict(row_dict)
                dur    == IF "duration" \in DOMAIN row_dict
                          THEN BurstDuration(row_dict["duration"])
                          ELSE [ok |-> TRUE, raised |-> FALSE, val |-> <<>>]
                full   == IF "duration" \in DOMAIN row_dict
                          THEN Put(b_dict, "duration", dur.val) ELSE b_dict
                With(l) == WithIntf(acc.st, intf, Put(per0, "burst", l))
            IN  IF dur.raised THEN [acc EXCEPT !.st = With(b_list), !.trace = ev, !.raised = TRUE]
                ELSE IF ~dur.ok THEN [acc EXCEPT !.st = With(b_list), !.trace = ev]
                ELSE [acc EXCEPT !.st = With(Append(b_list, full)), !.trace = ev]

RECURSIVE BurstRows(_, _)
BurstRows(acc, rows) ==
    IF rows = <<>> \/ acc.raised THEN acc
    ELSE BurstRows(parse_burstdetect_row(acc, Head(rows)), Tail(rows))

\* parse_burstdetect(json_data, per_switch_stats_dict, mo)
parse_burstdetect(json_data, acc) ==
    LET c == parse_nxapi_common(json_data)
    IN  IF c.ret = "raise" THEN [acc EXCEPT !.raised = TRUE]
        ELSE IF c.ret = "none" THEN acc
        ELSE IF "TABLE_instance" \notin DOMAIN c.rows THEN acc
        ELSE IF "ROW_instance" \notin DOMAIN c.rows["TABLE_instance"] THEN acc
        ELSE BurstRows(acc, c.rows["TABLE_instance"]["ROW_instance"])

\* the (buffer_dict[instance] key, row key) pairs of parse_bufferpktstats
BufferFields == <<
    <<"peak_cell_drop_pg", "max_cell_usage_drop_pg">>,
    <<"peak_cell_no_drop", "max_cell_usage_no_drop_pg">>,
    <<"cell_count_drop_pg", "switch_cell_count_drop_pg">>,
    <<"cell_count_no_drop_pg", "switch_cell_count_no_drop_pg">> >>

RECURSIVE BufferCounters(_, _, _)
\* (BufferCountersPerRow: one sentinel in a row drops all counters of the row)
BufferCountersPerRow(d, row_dict, pairs) ==
    LET there == {j \in 1..Len(pairs) : pairs[j][2] \in DOMAIN row_dict}
        names == {pairs[j][1] : j \in there}
    IN  IF \E j \in there : Contains(Str(row_dict[pairs[j][2]]), s_N) THEN d
        ELSE [k \in DOMAIN d \cup names |->
                IF k \in names THEN row_dict[pairs[CHOOSE j \in there : pairs[j][1] = k][2]]
                ELSE d[k]]
\* each counter is stored when its row key is there and 'N' not in str(value)
BufferCounters(d, row_dict, pairs) ==
    IF pairs = <<>> THEN d
    ELSE LET key == Head(pairs)[2]
             d1  == IF key \in DOMAIN row_dict /\ ~Contains(Str(row_dict[key]), s_N)
                    THEN Put(d, Head(pairs)[1], row_dict[key]) ELSE d
         IN  BufferCounters(d1, row_dict, Tail(pairs))

RECURSIVE BufferRows(_, _)
\* for row_dict in ROW_instance: buffer_dict[instance] = {}, then its counters
BufferRows(buffer_dict, rows) ==
    IF rows = <<>> THEN buffer_dict
    ELSE LET row_dict == Head(rows)
         IN  BufferRows(IF "instance" \notin DOMAIN row_dict THEN buffer_dict
                        ELSE OPut(buffer_dict, row_dict["instance"],
                                  BufferCounters(EmptyDict, row_dict, BufferFields)),
                        Tail(rows))

\* parse_bufferpktstats(cmd_result, per_switch_stats_dict, mo); json.loads raises
\* on a text that is no JSON (cmd_result.json = JNull) and on anything but a str
parse_bufferpktstats(cmd_result, acc) ==
    IF cmd_result.type # "str" \/ IsJNull(cmd_result.json) THEN [acc EXCEPT !.raised = TRUE]
    ELSE
      LET json_data == cmd_result.json
      IN  IF "TABLE_module" \notin DOMAIN json_data THEN acc
          ELSE IF "ROW_module" \notin DOMAIN json_data["TABLE_module"] THEN acc
          ELSE LET row_module == json_data["TABLE_module"]["ROW_module"]
               IN  IF IsJNull(row_module) THEN acc
                   ELSE IF "TABLE_instance" \notin DOMAIN row_module THEN acc
                   ELSE IF "ROW_instance" \notin DOMAIN row_module["TABLE_instance"] THEN acc
                   ELSE [acc EXCEPT !.st =
                           Put(@, "buffer_usage",
                               BufferRows(IF "buffer_usage" \in DOMAIN @ THEN @["buffer_usage"] ELSE <<>>,
                                          row_module["TABLE_instance"]["ROW_instance"]))]

\* parse_nothing(cmd_result, per_switch_stats_dict, mo)
parse_nothing(cmd_result, acc) == acc

(***************************************************************************)
(* Inputs: what a switch may answer.                                       *)
(***************************************************************************)
n_eth1_1 == <<"e","t","h","1","/","1">>
n_mgmt0 == <<"m","g","m","t","0">>
n_lo0 == <<"l","o","0">>
n_vlan10 == <<"v","l","a","n","1","0">>
n_sub == <<"e","t","h","1","/","1",".","5">>
p_phys == <<"s","y","s","/","i","n","t","f","/","p","h","y","s","-">>
p_mgmt == <<"s","y","s","/","m","g","m","t","-">>
p_lb == <<"s","y","s","/","i","n","t","f","/","l","b","-">>
p_svi == <<"s","y","s","/","i","n","t","f","/","s","v","i","-">>
p_encrtd == <<"s","y","s","/","i","n","t","f","/","e","n","c","r","t","d","-">>
sfx_in == <<"/","d","b","g","I","f","H","C","I","n">>
sfx_out == <<"/","d","b","g","I","f","H","C","O","u","t">>
v_down == <<"d","o","w","n">>
v_T1 == <<"2","0","2","4","-","0","5","-","1","8","T","1","8",":","0","4",":","1","9",".","9","0","0","+","0","0",":","0","0">>
v_T2 == <<"2","0","2","4","-","0","5","-","1","8","T","1","8",":","0","4",":","4","9",".","9","0","0","+","0","0",":","0","0">>
v_1 == <<"1">>
v_2 == <<"2">>
v_uplink == <<"u","p","l","i","n","k">>
v_trunk == <<"t","r","u","n","k">>
t_Ethernet1_1 == <<"E","t","h","e","r","n","e","t","1","/","1">>
t_Eth1_1 == <<"E","t","h","1","/","1">>
t_Ethernet_sub == <<"E","t","h","e","r","n","e","t","1","/","1",".","5">>
t_pfc == <<" ","I","n","t","e","r","f","a","c","e"," ","P","F","C"," ","w","a","t","c","h","d","o","g",":"," ","[","E","n","a","b","l","e","d","]">>
v_dc1 == <<"d","c","1">>
v_nexus == <<"n","e","x","u","s">>
k_q_shutdown == <<"q","-","s","h","u","t","d","o","w","n">>
k_q_stat_type_v == <<"q","-","s","t","a","t","-","t","y","p","e">>
v_0 == <<"0">>
v_3 == <<"3">>
v_peak_time == <<"2","0","2","4","/","0","4","/","3","0"," ","0","9",":","0","5",":","3","3",":","7","7","7","8","4","8">>
v_dur_us == <<"2","0","6",".","4","6"," ","u","s">>
v_dur_ms == <<"1",".","4","7"," ","m","s">>
v_dur_s == <<"2"," ","s">>
v_dur_bad == <<"3"," ","m","i","n">>

\* the interface names a switch reports, and the ones the markers exclude
IntfNames == {n_eth1_1, n_mgmt0, n_lo0, n_vlan10, n_sub}
\* the distinguished name of the interface called name
DnOf(name) ==
    (CASE name = n_mgmt0 -> p_mgmt
       [] name = n_lo0 -> p_lb
       [] name = n_vlan10 -> p_svi
       [] name = n_sub -> p_encrtd
       [] OTHER -> p_phys) \o s_lbr \o name \o s_rbr

\* rows of /api/node/mo/sys/intf.json?query-target=children
IntfRow(name) ==
    [dn |-> DnOf(name), id |-> name, descr |-> v_uplink, adminSt |-> s_up,
     operSt |-> s_up, mode |-> v_trunk]
IntfRows == {IntfRow(name) : name \in IntfNames}

\* rows of /api/node/class/rmonIfHCIn.json and rmonIfHCOut.json
CounterRow(name, sfx, ts) ==
    IF sfx = sfx_out
    THEN [dn |-> DnOf(name) \o sfx, broadcastPkts |-> v_2, multicastPkts |-> v_3,
          ucastPkts |-> v_0, octets |-> v_1, modTs |-> ts]
    ELSE [dn |-> DnOf(name) \o sfx, broadcastPkts |-> v_1, multicastPkts |-> v_2,
          ucastPkts |-> v_3, octets |-> v_0, modTs |-> ts]
HCInRows == {CounterRow(name, sfx_in, v_T1) : name \in IntfNames}
              \cup {CounterRow(n_eth1_1, sfx_in, v_T2)}
HCOutRows == {CounterRow(name, sfx_out, v_T2) : name \in IntfNames}

\* a decoded NX-API response around ROW_module
NxapiJson(row_module) ==
    [type |-> "dict",
     d |-> [result |-> [body |-> [TABLE_module |-> [ROW_module |-> row_module]]]]]

\* rows of show queuing pfc-queue detail
QosStats ==
    [ROW_qosgrp_stats |->
       ("eq-qosgrp" :> v_3) @@
       [TABLE_qosgrp_stats_entry |->
          [ROW_qosgrp_stats_entry |->
             << << [k |-> k_q_stat_type_v, v |-> v_0], [k |-> k_q_shutdown, v |-> v_1] >> >>]]]
PfcRow(name_text) ==
    << [k |-> s_if_name_str, type |-> "str", v |-> name_text \o t_pfc],
       [k |-> s_TABLE_qosgrp_stats, type |-> "table", v |-> QosStats] >>
PfcRowSet == {PfcRow(t) : t \in {t_Ethernet1_1, t_Eth1_1, t_Ethernet_sub}}
PfcPayload(rows) == NxapiJson([TABLE_queuing_interface |-> [ROW_queuing_interface |-> rows]])

\* rows of show queuing burst-detect detail
BurstRow(name_text, duration) ==
    [queue |-> v_3, threshold |-> v_1, peak |-> v_2, duration |-> duration]
      @@ ("if-str" :> name_text) @@ ("end-depth" :> v_0) @@ ("peak-time" :> v_peak_time)
BurstRowSet == {BurstRow(t, v_dur_us) : t \in {t_Ethernet1_1, t_Eth1_1, t_Ethernet_sub}}
BurstPayload(rows) == NxapiJson([TABLE_instance |-> [ROW_instance |-> rows]])

\* the payloads of 1..n rows drawn from a set of rows
PayloadsOf(rowset, n) == UNION {[1..m -> rowset] : m \in 1..n}

\* the endpoints and commands of n9k_mo_dict and get_switch_stats
ep_aaaLogin == <<"/","a","p","i","/","a","a","a","L","o","g","i","n",".","j","s","o","n">>
ep_sysmgrShowVersion == <<"/","a","p","i","/","n","o","d","e","/","c","l","a","s","s","/","s","y","s","m","g","r","S","h","o","w","V","e","r","s","i","o","n",".","j","s","o","n">>
ep_nwVdc == <<"/","a","p","i","/","n","o","d","e","/","c","l","a","s","s","/","n","w","V","d","c",".","j","s","o","n">>
ep_eqptCh == <<"/","a","p","i","/","n","o","d","e","/","c","l","a","s","s","/","e","q","p","t","C","h",".","j","s","o","n">>
ep_pieCpuUsage == <<"/","a","p","i","/","n","o","d","e","/","c","l","a","s","s","/","p","i","e","C","p","u","U","s","a","g","e",".","j","s","o","n">>
ep_pieMemoryUsage == <<"/","a","p","i","/","n","o","d","e","/","c","l","a","s","s","/","p","i","e","M","e","m","o","r","y","U","s","a","g","e",".","j","s","o","n">>
ep_intf == <<"/","a","p","i","/","n","o","d","e","/","m","o","/","s","y","s","/","i","n","t","f",".","j","s","o","n","?","q","u","e","r","y","-","t","a","r","g","e","t","=","c","h","i","l","d","r","e","n">>
ep_ethpmPhysIf == <<"/","a","p","i","/","n","o","d","e","/","c","l","a","s","s","/","e","t","h","p","m","P","h","y","s","I","f",".","j","s","o","n">>
ep_rmonEtherStats == <<"/","a","p","i","/","n","o","d","e","/","c","l","a","s","s","/","r","m","o","n","E","t","h","e","r","S","t","a","t","s",".","j","s","o","n">>
ep_rmonIfHCIn == <<"/","a","p","i","/","n","o","d","e","/","c","l","a","s","s","/","r","m","o","n","I","f","H","C","I","n",".","j","s","o","n">>
ep_rmonIfHCOut == <<"/","a","p","i","/","n","o","d","e","/","c","l","a","s","s","/","r","m","o","n","I","f","H","C","O","u","t",".","j","s","o","n">>
ep_ipqosQueuingStats == <<"/","a","p","i","/","n","o","d","e","/","c","l","a","s","s","/","i","p","q","o","s","Q","u","e","u","i","n","g","S","t","a","t","s",".","j","s","o","n">>
ep_lldpAdjEp == <<"/","a","p","i","/","n","o","d","e","/","c","l","a","s","s","/","l","l","d","p","A","d","j","E","p",".","j","s","o","n">>
ep_aaaLogout == <<"/","a","p","i","/","a","a","a","L","o","g","o","u","t",".","j","s","o","n">>
cmd_burst == <<"s","h","o","w"," ","q","u","e","u","i","n","g"," ","b","u","r","s","t","-","d","e","t","e","c","t"," ","d","e","t","a","i","l">>
cmd_pfcwd == <<"s","h","o","w"," ","q","u","e","u","i","n","g"," ","p","f","c","-","q","u","e","u","e"," ","d","e","t","a","i","l">>
cmd_buffer == <<"s","h","o","w"," ","h","a","r","d","w","a","r","e"," ","i","n","t","e","r","n","a","l"," ","b","u","f","f","e","r"," ","i","n","f","o"," ","p","k","t","-","s","t","a","t","s"," ","|"," ","j","s","o","n">>
cmd_clear == <<"c","l","e","a","r"," ","c","o","u","n","t","e","r","s"," ","b","u","f","f","e","r","s">>
s_aaaLogin == <<"a","a","a","L","o","g","i","n">>
s_aaaLogout == <<"a","a","a","L","o","g","o","u","t">>
s_slash == <<"/">>

(***************************************************************************)
(* State after get_switches().                                             *)
(***************************************************************************)
\* the keys of switch_dict, in the order of the input file
Devices == <<"sw1", "sw2">>
DeviceSet == {Devices[i] : i \in 1..Len(Devices)}
\* what a device has on stdout before print_output reached it
NotPrinted == [printed |-> FALSE, raised |-> FALSE, lines |-> <<>>]

\* stats_dict[switch[0]] as get_switches leaves it
NewStats ==
    Put(Put(Put(Put(EmptyDict, "location", v_dc1), "intf", <<>>), "modules", <<>>), "type", v_nexus)

\* the module-level n9k_mo_dict: endpoint -> parser, in insertion order
BaseMoList == <<
    [k |-> ep_aaaLogin, v |-> "None"],
    [k |-> ep_sysmgrShowVersion, v |-> "parse_sysmgrShowVersion"],
    [k |-> ep_nwVdc, v |-> "parse_nwVdc"],
    [k |-> ep_eqptCh, v |-> "parse_eqptCh"],
    [k |-> ep_pieCpuUsage, v |-> "parse_pieCpuUsage"],
    [k |-> ep_pieMemoryUsage, v |-> "parse_pieMemoryUsage"],
    [k |-> ep_intf, v |-> "parse_intf"],
    [k |-> ep_ethpmPhysIf, v |-> "parse_ethpmPhysIf"],
    [k |-> ep_rmonEtherStats, v |-> "parse_rmonEtherStats"],
    [k |-> ep_rmonIfHCIn, v |-> "parse_rmonIfHCIn"],
    [k |-> ep_rmonIfHCOut, v |-> "parse_rmonIfHCOut"],
    [k |-> ep_ipqosQueuingStats, v |-> "parse_ipqosQueuingStats"],
    [k |-> ep_lldpAdjEp, v |-> "parse_lldpAdjEp"],
    [k |-> ep_aaaLogout, v |-> "None"] >>

(***************************************************************************)
(* SpecX: one collection cycle of one switch seen from the extractors.     *)
(* Each extractor is applied at most once, in any order, to any payload of *)
(* the input sets; an exception ends the cycle.                            *)
(***************************************************************************)
XSwitch == Devices[1]

InitX ==
    /\ pc = "extract"
    /\ user_args = [burst |-> FALSE, pfcwd |-> FALSE, bufferstats |-> FALSE]
    /\ n9k_mo_dict = BaseMoList
    /\ stats_dict = [d \in DeviceSet |-> NewStats]
    /\ response_time_dict = [d \in DeviceSet |-> <<>>]
    /\ cur = 1
    /\ idx = 0
    /\ auth_cookie = NoneVal
    /\ nxapi_ep = FALSE
    /\ dispatched = <<>>
    /\ outcome = [d \in DeviceSet |-> "running"]
    /\ output = [d \in DeviceSet |-> NotPrinted]
    /\ trace = <<>>
    /\ called = {}
    /\ fed = <<>>
    /\ faults = 0
    /\ time_output = <<>>

\* the dn of each row of a structured-query payload
DnsOf(p) == [i \in 1..Len(p) |-> p[i].dn]

XAcc == [st |-> stats_dict[XSwitch], raised |-> FALSE, trace |-> trace]

\* the extractor named by has not run in this cycle, which has not ended
XMay(by) == pc = "extract" /\ by \notin called /\ outcome[XSwitch] = "running"

\* the state after extractor by was given rows of the identities raws and left
\* the accumulator r
XDone(by, raws, r) ==
    /\ stats_dict' = [stats_dict EXCEPT ![XSwitch] = r.st]
    /\ trace' = r.trace
    /\ outcome' = [outcome EXCEPT ![XSwitch] = IF r.raised THEN "raised" ELSE @]
    /\ called' = called \cup {by}
    /\ fed' = fed \o [i \in 1..Len(raws) |-> [by |-> by, raw |-> raws[i]]]
    /\ UNCHANGED <<pc, user_args, n9k_mo_dict, response_time_dict, cur, idx, auth_cookie,
                   nxapi_ep, dispatched, output, faults, time_output>>

X_parse_intf ==
    /\ XMay("parse_intf")
    /\ \E p \in PayloadsOf(IntfRows, MaxRows - Len(fed)) :
          XDone("parse_intf", DnsOf(p), parse_intf(p, XAcc))

X_parse_rmonIfHCIn ==
    /\ XMay("parse_rmonIfHCIn")
    /\ \E p \in PayloadsOf(HCInRows, MaxRows - Len(fed)) :
          XDone("parse_rmonIfHCIn", DnsOf(p), parse_rmonIfHCIn(p, XAcc))

X_parse_rmonIfHCOut ==
    /\ XMay("parse_rmonIfHCOut")
    /\ \E p \in PayloadsOf(HCOutRows, MaxRows - Len(fed)) :
          XDone("parse_rmonIfHCOut", DnsOf(p), parse_rmonIfHCOut(p, XAcc))

X_parse_pfcqueuedetail ==
    /\ XMay("parse_pfcqueuedetail")
    /\ \E p \in PayloadsOf(PfcRowSet, MaxRows - Len(fed)) :
          XDone("parse_pfcqueuedetail", [i \in 1..Len(p) |-> p[i][1].v], parse_pfcqueuedetail(PfcPayload(p), XAcc))

X_parse_burstdetect ==
    /\ XMay("parse_burstdetect")
    /\ \E p \in PayloadsOf(BurstRowSet, MaxRows - Len(fed)) :
          XDone("parse_burstdetect", [i \in 1..Len(p) |-> p[i]["if-str"]], parse_burstdetect(BurstPayload(p), XAcc))

NextX ==
    \/ X_parse_intf
    \/ X_parse_rmonIfHCIn
    \/ X_parse_rmonIfHCOut
    \/ X_parse_pfcqueuedetail
    \/ X_parse_burstdetect

SpecX == InitX /\ [][NextX]_vars

(***************************************************************************)
(* Interface identity and exclusion (SpecX).                               *)
(***************************************************************************)
XIntf == stats_dict[XSwitch]["intf"]

\* a management, loopback, SVI or sub-interface marker in an identity
C8Marked(raw) ==
    \E m \in {s_mgmt, s_lo, s_svi, s_dot} : Contains(raw, m)
\* the interface a row names: the bracketed id of a dn, else the text itself
C8Ident(raw) == IF Contains(raw, s_lbr) THEN BracketId(raw) ELSE raw

\* C8: after any sequence of extractor calls the interface map holds no key
\* for a row whose raw identity carries a management, loopback, SVI or
\* sub-interface marker: no key of the map carries such a marker, and no key
\* is the interface named by a marked row that was handed to an extractor.
C8_NoKeyForExcludedRow ==
    \A k \in OKeys(XIntf) :
        /\ ~C8Marked(k)
        /\ \A i \in 1..Len(fed) : C8Marked(fed[i].raw) => k # C8Ident(fed[i].raw)

\* a marked row and an unmarked row went through a structured-query
\* extractor, and only the unmarked one has a record
C8_Witness ==
    /\ \E i \in 1..Len(fed) :
          /\ fed[i].by \in {"parse_intf", "parse_rmonIfHCIn", "parse_rmonIfHCOut"}
          /\ C8Marked(fed[i].raw)
          /\ ~OHas(XIntf, C8Ident(fed[i].raw))
    /\ OHas(XIntf, n_eth1_1)

\* the raw identities that address the physical interface eth1/1
C9Addresses(raw) ==
    raw \in {n_eth1_1, DnOf(n_eth1_1), DnOf(n_eth1_1) \o sfx_in, DnOf(n_eth1_1) \o sfx_out,
             t_Ethernet1_1, t_Eth1_1, t_Ethernet1_1 \o t_pfc, t_Eth1_1 \o t_pfc}

\* C9: every source shape that addresses the same physical interface
\* (attribute id, bracketed dn, free command text) resolves to one and the
\* same key of the interface map.
C9_OneKeyPerInterface ==
    \A i, j \in 1..Len(trace) :
        (/\ trace[i].ev = "key" /\ trace[j].ev = "key"
         /\ C9Addresses(trace[i].raw) /\ C9Addresses(trace[j].raw))
        => trace[i].key = trace[j].key

\* the free-text shapes resolved to a key that is not the one of the dn shape
C9_Diverged ==
    \E i, j \in 1..Len(trace) :
        /\ trace[i].ev = "key" /\ trace[i].by = "parse_intf" /\ trace[i].key = n_eth1_1
        /\ trace[j].ev = "key" /\ trace[j].by \in {"parse_burstdetect", "parse_pfcqueuedetail"}
        /\ C9Addresses(trace[j].raw)
        /\ trace[j].key # n_eth1_1
        /\ outcome[XSwitch] = "raised"

\* interface k went through the row loop of the extractor named by
C11Fed(by, k) ==
    \E i \in 1..Len(trace) : trace[i].ev = "key" /\ trace[i].by = by /\ trace[i].key = k

\* C11: once an ingress-counters row and an egress-counters row of the same
\* interface went through their extractors, in either order, the interface's
\* data holds the four rx_ fields with the values of the ingress row and the
\* four tx_ fields with the values of the egress row; neither call removed
\* or overwrote a field of the other.
C11_RxTxKeptApart ==
    \A k \in OKeys(XIntf) :
        (C11Fed("parse_rmonIfHCIn", k) /\ C11Fed("parse_rmonIfHCOut", k)) =>
           LET data == OGet(XIntf, k)["data"]
               rx   == CounterRow(k, sfx_in, v_T1)
               tx   == CounterRow(k, sfx_out, v_T2)
           IN  /\ {"rx_broadcast_pkts", "rx_multicast_pkts", "rx_ucast_pkts", "rx_bytes",
                    "tx_broadcast_pkts", "tx_multicast_pkts", "tx_ucast_pkts", "tx_bytes"}
                      \subseteq DOMAIN data
               /\ data["rx_broadcast_pkts"] = rx.broadcastPkts
               /\ data["rx_multicast_pkts"] = rx.multicastPkts
               /\ data["rx_ucast_pkts"] = rx.ucastPkts
               /\ data["rx_bytes"] = rx.octets
               /\ data["tx_broadcast_pkts"] = tx.broadcastPkts
               /\ data["tx_multicast_pkts"] = tx.multicastPkts
               /\ data["tx_ucast_pkts"] = tx.ucastPkts
               /\ data["tx_bytes"] = tx.octets

\* eth1/1 went through parse_intf, then the ingress and the egress extractor,
\* and the two rows carried different octets
C11_Witness ==
    /\ C11Fed("parse_intf", n_eth1_1)
    /\ C11Fed("parse_rmonIfHCIn", n_eth1_1) /\ C11Fed("parse_rmonIfHCOut", n_eth1_1)
    /\ outcome[XSwitch] = "running"
    /\ OGet(XIntf, n_eth1_1)["data"]["rx_bytes"] # OGet(XIntf, n_eth1_1)["data"]["tx_bytes"]

\* C10: meta.modTs of an interface is written at most once in a cycle and
\* only by the ingress-counters extractor; once set, no later call and no
\* later row changes it.
C10_ModTsWrittenOnce ==
    \A i, j \in 1..Len(trace) :
        (trace[i].ev = "modTs" /\ trace[j].ev = "modTs" /\ trace[i].key = trace[j].key)
        => (i = j /\ trace[i].by = "parse_rmonIfHCIn")

\* a second ingress row of the same interface replaced the value of modTs
C10_Overwritten ==
    \E i, j \in 1..Len(trace) :
        /\ i < j
        /\ trace[i].ev = "modTs" /\ trace[j].ev = "modTs"
        /\ trace[i].key = trace[j].key
        /\ trace[i].raw # trace[j].raw
        /\ Get(Sub(OSub(XIntf, trace[j].key), "meta"), "modTs") = trace[j].raw

(***************************************************************************)
(* The orchestrator: main, get_switch_stats, connect_and_pull_stats and    *)
(* print_output over the devices of the input file.                        *)
(***************************************************************************)
v_nxos == <<"1","0",".","4","(","3",")">>
v_uptime == <<"1"," ","d","a","y","(","s",")",","," ","2"," ","h","o","u","r","(","s",")",","," ","3"," ","m","i","n","u","t","e","(","s",")",","," ","4"," ","s","e","c","o","n","d","(","s",")">>
v_leaf == <<"l","e","a","f","1">>
v_model == <<"N","9","K","-","C","9","3","1","8","0","Y","C","-","F","X">>
v_5 == <<"5">>
v_100G == <<"1","0","0","G">>
v_none == <<"n","o","n","e">>
n_eth1_2 == <<"e","t","h","1","/","2">>
sfx_phys == <<"/","p","h","y","s">>
sfx_ether == <<"/","d","b","g","E","t","h","e","r","S","t","a","t","s">>
sfx_q == <<"/","q","u","e","u","i","n","g">>
v_q3 == <<"c","-","o","u","t","-","q","3">>
p_lldp == <<"s","y","s","/","l","l","d","p","/","i","n","s","t","/","i","f","-">>
sfx_adj == <<"/","a","d","j","-","1">>
v_encap == <<"b","r","i","d","g","e",",","r","o","u","t","e","r">>
v_sysdesc == <<"C","i","s","c","o"," ","N","X","-","O","S">>
v_spine == <<"s","p","i","n","e","1">>
v_ip == <<"1","0",".","0",".","0",".","2">>
t_burst_cli == <<"E","t","h","1","/","1"," ","q","u","e","u","e"," ","3"," ","p","e","a","k"," ","2">>
v_token == <<"t","o","k">>

\* the last offset of a "/" in s counted from 1, 0 when none
LastSlash(s) == IF \E i \in 1..Len(s) : s[i] = "/"
                THEN CHOOSE i \in 1..Len(s) : s[i] = "/" /\ \A j \in (i + 1)..Len(s) : s[j] # "/"
                ELSE 0
\* mo = endpoint.split('/')[-1].split('.')[0]
MoOf(endpoint) ==
    LET last == SubSeq(endpoint, LastSlash(endpoint) + 1, Len(endpoint))
    IN  IF Contains(last, s_dot) THEN PySlice(last, 0, Find(last, s_dot)) ELSE last

\* the token a switch hands out on aaaLogin
TokenOf(sw) == v_token \o <<"-">> \o (IF sw = Devices[1] THEN <<"1">> ELSE <<"2">>)

\* one imdata entry of a class query about the switch itself
SwitchImdata(endpoint, attributes) == <<(MoOf(endpoint) :> [attributes |-> attributes])>>

\* Python values that cross the transport: None, a list, a str
PyNone == [type |-> "NoneType"]
PyList(items) == [type |-> "list", items |-> items]
\* `if imdata_list:`
Truthy(x) ==
    CASE x.type = "NoneType" -> FALSE
      [] x.type = "list" -> Len(x.items) > 0
      [] x.type = "str" -> Len(x.text) > 0

\* response_json['imdata'] of a switch that answers every query in full
GoodImdata(endpoint) ==
    CASE endpoint = ep_sysmgrShowVersion ->
           SwitchImdata(endpoint, [nxosVersion |-> v_nxos, kernelUptime |-> v_uptime])
      [] endpoint = ep_nwVdc -> SwitchImdata(endpoint, [name |-> v_leaf])
      [] endpoint = ep_eqptCh -> SwitchImdata(endpoint, [model |-> v_model])
      [] endpoint = ep_pieCpuUsage ->
           SwitchImdata(endpoint, [userPercent |-> v_5, kernelPercent |-> v_2])
      [] endpoint = ep_pieMemoryUsage ->
           SwitchImdata(endpoint, [memTotal |-> v_3, memUsed |-> v_1])
      [] endpoint = ep_intf -> <<IntfRow(n_eth1_1), IntfRow(n_mgmt0)>>
      [] endpoint = ep_ethpmPhysIf ->
           <<[dn |-> DnOf(n_eth1_1) \o sfx_phys, operSt |-> s_up, operSpeed |-> v_100G,
              operStQual |-> v_none]>>
      [] endpoint = ep_rmonEtherStats ->
           <<[dn |-> DnOf(n_eth1_1) \o sfx_ether, cRCAlignErrors |-> v_0,
              rxOversizePkts |-> v_1]>>
      [] endpoint = ep_rmonIfHCIn -> <<CounterRow(n_eth1_1, sfx_in, v_T1)>>
      [] endpoint = ep_rmonIfHCOut -> <<CounterRow(n_eth1_1, sfx_out, v_T1)>>
      [] endpoint = ep_ipqosQueuingStats ->
           <<[dn |-> DnOf(n_eth1_1) \o sfx_q, cmapName |-> v_q3, txBytes |-> v_2,
              dropPackets |-> v_0, modTs |-> v_T1]>>
      [] endpoint = ep_lldpAdjEp ->
           <<[dn |-> p_lldp \o s_lbr \o n_eth1_1 \o s_rbr \o sfx_adj, enCap |-> v_encap,
              sysDesc |-> v_sysdesc, portIdV |-> t_Ethernet1_1, mgmtIp |-> v_ip,
              sysName |-> v_spine]>>

\* the endpoints whose answer may also be a payload the later steps trip over
HasOddImdata(endpoint) == endpoint \in {ep_nwVdc, ep_rmonIfHCIn}
\* nwVdc without a name; ingress counters of an interface no earlier query listed
OddImdata(endpoint) ==
    CASE endpoint = ep_nwVdc -> SwitchImdata(endpoint, [dn |-> v_leaf])
      [] endpoint = ep_rmonIfHCIn -> <<CounterRow(n_eth1_2, sfx_in, v_T1)>>

\* the commands whose output may be no JSON
HasOddOutput(cmd) == cmd = cmd_buffer
OddOutput(cmd) == [type |-> "str", text |-> s_error, json |-> JNull]

\* what run_cmd returns for a command that succeeded: its stdout, stripped.
\* json is the text decoded by json.loads, JNull when the text is no JSON.
CmdOutput(cmd) ==
    CASE cmd = cmd_burst -> [type |-> "str", text |-> t_burst_cli, json |-> JNull]
      [] cmd = cmd_pfcwd -> [type |-> "str", text |-> t_Ethernet1_1 \o t_pfc, json |-> JNull]
      [] cmd = cmd_buffer ->
           [type |-> "str", text |-> s_TABLE_qosgrp_stats,
            json |-> [TABLE_module |-> [ROW_module |-> [TABLE_instance |-> [ROW_instance |->
                       <<[instance |-> v_0, max_cell_usage_drop_pg |-> v_3,
                          max_cell_usage_no_drop_pg |-> s_N]>>]]]]]
      [] cmd = cmd_clear -> [type |-> "str", text |-> <<>>, json |-> JNull]

\* parser(imdata_list, stats_dict[switch_ip], mo) for the parser n9k_mo_dict names
RunParser(parser, imdata_list, acc, mo) ==
    CASE parser = "parse_sysmgrShowVersion" -> parse_sysmgrShowVersion(imdata_list, acc, mo)
      [] parser = "parse_nwVdc" -> parse_nwVdc(imdata_list, acc, mo)
      [] parser = "parse_eqptCh" -> parse_eqptCh(imdata_list, acc, mo)
      [] parser = "parse_pieCpuUsage" -> parse_pieCpuUsage(imdata_list, acc, mo)
      [] parser = "parse_pieMemoryUsage" -> parse_pieMemoryUsage(imdata_list, acc, mo)
      [] parser = "parse_intf" -> parse_intf(imdata_list, acc)
      [] parser = "parse_ethpmPhysIf" -> parse_ethpmPhysIf(imdata_list, acc)
      [] parser = "parse_rmonEtherStats" -> parse_rmonEtherStats(imdata_list, acc)
      [] parser = "parse_rmonIfHCIn" -> parse_rmonIfHCIn(imdata_list, acc)
      [] parser = "parse_rmonIfHCOut" -> parse_rmonIfHCOut(imdata_list, acc)
      [] parser = "parse_ipqosQueuingStats" -> parse_ipqosQueuingStats(imdata_list, acc)
      [] parser = "parse_lldpAdjEp" -> parse_lldpAdjEp(imdata_list, acc)
      [] parser = "parse_burstdetect" -> parse_burstdetect(imdata_list, acc)
      [] parser = "parse_pfcqueuedetail" -> parse_pfcqueuedetail(imdata_list, acc)
      [] parser = "parse_bufferpktstats" -> parse_bufferpktstats(imdata_list, acc)
      [] parser = "parse_nothing" -> parse_nothing(imdata_list, acc)

(***************************************************************************)
(* print_output_in_influxdb_lp.  A line is kept as its measurement and the *)
(* interface, queue or instance it is about; the function prints all lines *)
(* at its end, so an exception anywhere leaves nothing on stdout.          *)
(***************************************************************************)
\* s has n characters: one of seps[i] at a position i of seps (any character
\* when seps[i] is empty) and a digit everywhere else
ShapeOf(s, n, seps) ==
    /\ Len(s) = n
    /\ \A i \in 1..n : IF i \in DOMAIN seps THEN seps[i] = {} \/ s[i] \in seps[i]
                        ELSE IsDigit(s[i])

\* whether datetime.fromisoformat(s) accepts s: a date, then a time with
\* seconds or milliseconds, then an optional offset
IsIsoFormat(s) ==
    LET date == (5 :> {"-"}) @@ (8 :> {"-"})
        time == date @@ (11 :> {}) @@ (14 :> {":"}) @@ (17 :> {":"})
        ms   == time @@ (20 :> {"."})
    IN  \/ ShapeOf(s, 10, date)
        \/ ShapeOf(s, 19, time)
        \/ ShapeOf(s, 23, ms)
        \/ ShapeOf(s, 25, time @@ (20 :> {"+", "-"}) @@ (23 :> {":"}))
        \/ ShapeOf(s, 29, ms @@ (24 :> {"+", "-"}) @@ (27 :> {":"}))

\* whether datetime.strptime(v, '%Y/%m/%d %H:%M:%S:%f') accepts v
IsPeakTimeFormat(v) ==
    \E f \in 1..6 :
        ShapeOf(v, 20 + f, (5 :> {"/"}) @@ (8 :> {"/"}) @@ (11 :> {" "}) @@ (14 :> {":"})
                            @@ (17 :> {":"}) @@ (20 :> {":"}))

\* '...' + per_switch_stats_dict[key] + '...' with a value that is None: TypeError
NoneJoined(d, key) == key \in DOMAIN d /\ d[key] = NoneVal

\* the meta loop of one interface raises: modTs is no ISO text
MetaRaises(per_intf_dict) ==
    /\ "meta" \in DOMAIN per_intf_dict
    /\ "modTs" \in DOMAIN per_intf_dict["meta"]
    /\ Str(per_intf_dict["meta"]["modTs"]) # <<>>
    /\ ~IsIsoFormat(Str(per_intf_dict["meta"]["modTs"]))

\* the out_queue loop of one interface raises: a peer tag is None, or a
\* queue's modTs is neither None nor ISO text
QueueRaises(per_intf_dict) ==
    /\ "out_queue" \in DOMAIN per_intf_dict
    /\ per_intf_dict["out_queue"] # <<>>
    /\ \/ /\ "meta" \in DOMAIN per_intf_dict
          /\ \E k \in {"peer", "peer_intf", "peer_name", "peer_type"} :
                NoneJoined(per_intf_dict["meta"], k)
       \/ \E i \in 1..Len(per_intf_dict["out_queue"]) :
             LET per_q_dict == per_intf_dict["out_queue"][i].v
             IN  /\ "modTs" \in DOMAIN per_q_dict
                 /\ per_q_dict["modTs"] # NoneVal
                 /\ ~IsIsoFormat(per_q_dict["modTs"])

\* the interface has a pfcwd dict that is empty: `continue` skips its bursts
SkipsBurst(per_intf_dict) ==
    "pfcwd" \in DOMAIN per_intf_dict /\ per_intf_dict["pfcwd"] = <<>>

\* the burst loop of one interface raises: a peak-time strptime rejects
BurstRaises(per_intf_dict) ==
    /\ ~SkipsBurst(per_intf_dict)
    /\ "burst" \in DOMAIN per_intf_dict
    /\ \E i \in 1..Len(per_intf_dict["burst"]) :
          /\ "peak-time" \in DOMAIN per_intf_dict["burst"][i]
          /\ ~IsPeakTimeFormat(per_intf_dict["burst"][i]["peak-time"])

\* print_output_in_influxdb_lp raises for this per_switch_stats_dict
PrintRaises(st) ==
    \/ NoneJoined(st, "switchname")
    \/ NoneJoined(st, "model")
    \/ NoneJoined(st, "sys_ver")
    \/ \E i \in 1..Len(st["intf"]) :
          LET per_intf_dict == st["intf"][i].v
          IN  MetaRaises(per_intf_dict) \/ QueueRaises(per_intf_dict) \/ BurstRaises(per_intf_dict)

Line(m, intf, sub) == [m |-> m, intf |-> intf, sub |-> sub]

RECURSIVE Concat(_)
Concat(ss) == IF ss = <<>> THEN <<>> ELSE Head(ss) \o Concat(Tail(ss))

BufferLines(st) ==
    IF "buffer_usage" \notin DOMAIN st THEN <<>>
    ELSE [i \in 1..Len(st["buffer_usage"]) |->
            Line("SwitchBufferStats", NoneVal, st["buffer_usage"][i].k)]
IntfLines(intf_dict) ==
    [i \in 1..Len(intf_dict) |-> Line("SwitchIntfStats", intf_dict[i].k, NoneVal)]
QLines(intf_dict) ==
    Concat([i \in 1..Len(intf_dict) |->
        IF "out_queue" \notin DOMAIN intf_dict[i].v THEN <<>>
        ELSE [j \in 1..Len(intf_dict[i].v["out_queue"]) |->
                Line("SwitchQStats", intf_dict[i].k, intf_dict[i].v["out_queue"][j].k)]])
WdLines(intf_dict) ==
    Concat([i \in 1..Len(intf_dict) |->
        IF "pfcwd" \in DOMAIN intf_dict[i].v /\ intf_dict[i].v["pfcwd"] # <<>>
        THEN <<Line("SwitchPFCWD", intf_dict[i].k, NoneVal)>> ELSE <<>>])
BurstLines(intf_dict) ==
    Concat([i \in 1..Len(intf_dict) |->
        IF "burst" \in DOMAIN intf_dict[i].v /\ ~SkipsBurst(intf_dict[i].v)
        THEN [j \in 1..Len(intf_dict[i].v["burst"]) |->
                Line("SwitchBurst", intf_dict[i].k, Get(intf_dict[i].v["burst"][j], "q"))]
        ELSE <<>>])

\* what print_output_in_influxdb_lp leaves on stdout for one device
print_output_in_influxdb_lp(st) ==
    IF PrintRaises(st) THEN [printed |-> FALSE, raised |-> TRUE, lines |-> <<>>]
    ELSE [printed |-> TRUE, raised |-> FALSE,
          lines |-> <<Line("Switches", NoneVal, NoneVal)>> \o BufferLines(st)
                    \o IntfLines(st["intf"]) \o QLines(st["intf"])
                    \o WdLines(st["intf"]) \o BurstLines(st["intf"])]

(***************************************************************************)
(* Spec: one run of main() over the devices.  A step of the loop of        *)
(* connect_and_pull_stats is one action; idx, which the loop increments on *)
(* every iteration, is also the position of the loop in n9k_mo_dict.       *)
(* auth_cookie is kept as its token.  time.time() is a logical clock: the  *)
(* number of requests sent so far.  dispatched is the log of the requests  *)
(* sent, with what the step did.                                           *)
(***************************************************************************)
Init ==
    /\ pc = "main"
    /\ user_args \in [burst : BOOLEAN, pfcwd : BOOLEAN, bufferstats : BOOLEAN]
    /\ n9k_mo_dict = BaseMoList
    /\ stats_dict = [d \in DeviceSet |-> NewStats]
    /\ response_time_dict = [d \in DeviceSet |-> <<>>]
    /\ cur = 1
    /\ idx = 0
    /\ auth_cookie = NoneVal
    /\ nxapi_ep = FALSE
    /\ dispatched = <<>>
    /\ outcome = [d \in DeviceSet |-> "running"]
    /\ output = [d \in DeviceSet |-> NotPrinted]
    /\ trace = <<>>
    /\ called = {}
    /\ fed = <<>>
    /\ faults = 0
    /\ time_output = <<>>

Sw == Devices[cur]
Endpoint == n9k_mo_dict[idx + 1].k
Parser == n9k_mo_dict[idx + 1].v
InLoop == pc = "pull" /\ idx < Len(n9k_mo_dict)
IsLogin(endpoint) == Contains(endpoint, s_aaaLogin)
IsLogout(endpoint) == ~IsLogin(endpoint) /\ Contains(endpoint, s_aaaLogout)

\* dict(nxapi_start = ..., nxapi_rsp = ..., nxapi_parse = ...)
ResponseTime ==
    [nxapi_start |-> Len(dispatched), nxapi_rsp |-> Len(dispatched) + 1,
     nxapi_parse |-> Len(dispatched) + 1]
\* response_time_dict[switch_ip].insert(idx, response_time)
Timed == [response_time_dict EXCEPT ![Sw] = Insert(@, idx, ResponseTime)]

\* the request of this step goes out and is answered by rsp; the log keeps
\* whether the step called a parser, changed the device's record, stored a
\* timing record
Send(kind, rsp) ==
    /\ dispatched' = Append(dispatched,
           [sw |-> Sw, endpoint |-> Endpoint, kind |-> kind, cookie |-> auth_cookie,
            rsp |-> rsp,
            parsed |-> Len(trace') > Len(trace),
            changed |-> stats_dict'[Sw] # stats_dict[Sw],
            timed |-> Len(response_time_dict'[Sw]) > Len(response_time_dict[Sw])])
    /\ faults' = IF rsp = "ok" THEN faults ELSE faults + 1

\* the loop goes on with the next endpoint
Continue ==
    /\ idx' = idx + 1
    /\ UNCHANGED <<pc, cur, outcome>>

\* connect_and_pull_stats ends for this device (return, or an exception that
\* get_switch_stats logs); the next device starts with fresh locals
Leave(how) ==
    /\ outcome' = [outcome EXCEPT ![Sw] = how]
    /\ IF cur < Len(Devices) THEN cur' = cur + 1 /\ pc' = "pull"
                             ELSE cur' = 1 /\ pc' = "print"
    /\ idx' = 0
    /\ nxapi_ep' = FALSE
    /\ auth_cookie' = NoneVal

\* (NoCommands: get_switch_stats that adds no command)
NoCommands(mo_dict, args) == mo_dict
\* n9k_mo_dict once get_switch_stats added the commands the arguments enable
WithCommands(mo_dict, args) ==
    LET d1 == IF args.burst THEN OPut(mo_dict, cmd_burst, "parse_burstdetect") ELSE mo_dict
        d2 == IF args.pfcwd THEN OPut(d1, cmd_pfcwd, "parse_pfcqueuedetail") ELSE d1
    IN  IF args.bufferstats
        THEN OPut(OPut(d2, cmd_buffer, "parse_bufferpktstats"), cmd_clear, "parse_nothing")
        ELSE d2

\* get_switch_stats up to its first call of connect_and_pull_stats
get_switch_stats ==
    /\ pc = "main"
    /\ n9k_mo_dict' = WithCommands(n9k_mo_dict, user_args)
    /\ pc' = "pull"
    /\ UNCHANGED <<user_args, stats_dict, response_time_dict, cur, idx, auth_cookie, nxapi_ep,
                   dispatched, outcome, output, trace, called, fed, faults, time_output>>

\* (SharedCookie: a login that hands every device the handle of the first)
SharedCookie(sw, rsp) == TokenOf(Devices[1])
\* what aaa_login returns: the cookie, or None when the response is not ok
SessionCookie(sw, rsp) == IF rsp = "ok" THEN TokenOf(sw) ELSE NoneVal

\* (NeverFailed: the loop without its test of the cookie)
NeverFailed(cookie) == FALSE
\* `if auth_cookie is None:`
LoginFailed(cookie) == cookie = NoneVal

\* the iteration of 'aaaLogin' in endpoint
aaa_login ==
    /\ InLoop /\ IsLogin(Endpoint)
    /\ UNCHANGED <<user_args, n9k_mo_dict, stats_dict, output, trace, called, fed, time_output>>
    /\ \E rsp \in {"ok", "none", "timeout"} :
          /\ rsp # "ok" => faults < MaxFaults
          /\ \E cookie \in {SessionCookie(Sw, rsp)} :
                IF rsp = "timeout"
                THEN Leave("raised") /\ UNCHANGED response_time_dict
                ELSE IF LoginFailed(cookie)
                THEN Leave("no_auth") /\ UNCHANGED response_time_dict
                ELSE /\ auth_cookie' = cookie
                     /\ response_time_dict' = Timed
                     /\ Continue
                     /\ UNCHANGED nxapi_ep
          /\ Send("login", rsp)

\* the iteration of 'aaaLogout' in endpoint
aaa_logout ==
    /\ InLoop /\ IsLogout(Endpoint)
    /\ UNCHANGED <<user_args, n9k_mo_dict, stats_dict, output, trace, called, fed, time_output>>
    /\ \E rsp \in {"ok", "none", "timeout"} :
          /\ rsp # "ok" => faults < MaxFaults
          /\ IF rsp = "timeout"
             THEN Leave("raised") /\ UNCHANGED response_time_dict
             ELSE /\ response_time_dict' = Timed
                  /\ nxapi_ep' = TRUE
                  /\ Continue
                  /\ UNCHANGED auth_cookie
          /\ Send("logout", rsp)

\* the trace notes every call of a parser
CallEvent(parser, mo) == [ev |-> "call", by |-> parser, raw |-> mo, key |-> NoneVal]

\* `if imdata_list: parser(imdata_list, stats_dict[switch_ip], mo)` for the
\* imdata_list a transport returned; a list goes to the parser as its items
Pull(imdata_list, parser, acc, mo) ==
    IF ~Truthy(imdata_list) THEN acc
    ELSE RunParser(parser, IF imdata_list.type = "list" THEN imdata_list.items ELSE imdata_list,
                   [acc EXCEPT !.trace = Append(@, CallEvent(parser, mo))], mo)

\* (DmeAnswerUnchecked: dme_connect without its test of response.ok)
DmeAnswerUnchecked(endpoint, rsp) ==
    IF rsp = "odd" THEN PyList(OddImdata(endpoint)) ELSE PyList(GoodImdata(endpoint))
\* what dme_connect returns when the switch answers rsp
DmeAnswer(endpoint, rsp) ==
    CASE rsp = "ok" -> PyList(GoodImdata(endpoint))
      [] rsp = "odd" -> PyList(OddImdata(endpoint))
      [] OTHER -> PyNone
\* what nxapi_connect returns when the command ends as rsp
CmdAnswer(cmd, rsp) ==
    CASE rsp = "ok" -> CmdOutput(cmd)
      [] rsp = "odd" -> OddOutput(cmd)
      [] OTHER -> PyNone

\* the rest of an iteration once the transport returned imdata_list and the
\* parser, if called, left r
Parsed(kind, rsp, imdata_list, r) ==
    /\ stats_dict' = [stats_dict EXCEPT ![Sw] = r.st]
    /\ trace' = r.trace
    /\ IF rsp = "timeout" \/ r.raised
       THEN Leave("raised") /\ UNCHANGED response_time_dict
       ELSE /\ response_time_dict' = IF Truthy(imdata_list) THEN Timed ELSE response_time_dict
            /\ Continue
            /\ UNCHANGED <<auth_cookie, nxapi_ep>>
    /\ Send(kind, rsp)

\* the iteration of a structured query: dme_connect, then the parser
dme_connect ==
    /\ InLoop /\ ~IsLogin(Endpoint) /\ ~IsLogout(Endpoint) /\ ~nxapi_ep
    /\ \E rsp \in {"ok", "odd", "none", "timeout"} :
          /\ rsp # "ok" => faults < MaxFaults
          /\ rsp = "odd" => HasOddImdata(Endpoint)
          /\ \E imdata_list \in {DmeAnswer(Endpoint, rsp)} :
             \E r \in {Pull(imdata_list, Parser,
                            [st |-> stats_dict[Sw], raised |-> FALSE, trace |-> trace],
                            MoOf(Endpoint))} :
                Parsed("dme", rsp, imdata_list, r)
    /\ UNCHANGED <<user_args, n9k_mo_dict, output, called, fed, time_output>>

\* the iteration of a show command: nxapi_connect (run_cmd over ssh, which
\* catches its own exceptions and takes no timeout), then the parser
nxapi_connect ==
    /\ InLoop /\ ~IsLogin(Endpoint) /\ ~IsLogout(Endpoint) /\ nxapi_ep
    /\ \E rsp \in {"ok", "odd", "none"} :
          /\ rsp # "ok" => faults < MaxFaults
          /\ rsp = "odd" => HasOddOutput(Endpoint)
          /\ \E imdata_list \in {CmdAnswer(Endpoint, rsp)} :
             \E r \in {Pull(imdata_list, Parser,
                            [st |-> stats_dict[Sw], raised |-> FALSE, trace |-> trace],
                            MoOf(Endpoint))} :
                Parsed("nxapi", rsp, imdata_list, r)
    /\ UNCHANGED <<user_args, n9k_mo_dict, output, called, fed, time_output>>

\* the loop of connect_and_pull_stats is exhausted
connect_and_pull_stats_return ==
    /\ pc = "pull" /\ idx = Len(n9k_mo_dict)
    /\ Leave("completed")
    /\ UNCHANGED <<user_args, n9k_mo_dict, stats_dict, response_time_dict, dispatched,
                   output, trace, called, fed, faults, time_output>>

\* one iteration of the output loop of main: response_time is stored, then
\* print_output prints the device in InfluxDB line protocol.  The loop is
\* inside one try, so an exception of print_output ends it.
print_output ==
    /\ pc = "print"
    /\ stats_dict' = [stats_dict EXCEPT ![Sw] = Put(@, "response_time", v_0)]
    /\ \E out \in {print_output_in_influxdb_lp(stats_dict'[Sw])} :
          /\ output' = [output EXCEPT ![Sw] = out]
          /\ IF out.raised \/ cur = Len(Devices)
             THEN pc' = "done" /\ cur' = cur
             ELSE pc' = "print" /\ cur' = cur + 1
    /\ UNCHANGED <<user_args, n9k_mo_dict, response_time_dict, idx, auth_cookie, nxapi_ep,
                   dispatched, outcome, trace, called, fed, faults, time_output>>

s_NA == <<"N","/","A">>

\* one 'Command set' entry of the summary: the number and the name of the
\* command set, the two times, 'N/A' when the later instant is not the greater
\* (switch_ip and record are not in the text: they keep what the entry is made from)
TimeEntry(switch_ip, mo_dict, rsp_list, i) ==
    [switch_ip |-> switch_ip,
     set |-> i + 1,
     cmd_str |-> MoOf(mo_dict[i + 1].k),
     nxapi_rsp_time |-> IF rsp_list[i + 1].nxapi_rsp > rsp_list[i + 1].nxapi_start
                        THEN NatToStr(rsp_list[i + 1].nxapi_rsp - rsp_list[i + 1].nxapi_start)
                        ELSE s_NA,
     parse_time |-> IF rsp_list[i + 1].nxapi_parse > rsp_list[i + 1].nxapi_rsp
                    THEN NatToStr(rsp_list[i + 1].nxapi_parse - rsp_list[i + 1].nxapi_rsp)
                    ELSE s_NA,
     record |-> rsp_list[i + 1]]

RECURSIVE TimeEntries(_, _, _, _)
\* `while idx < len(rsp_list):` from the value i of idx
TimeEntries(switch_ip, mo_dict, rsp_list, i) ==
    IF i < Len(rsp_list)
    THEN <<TimeEntry(switch_ip, mo_dict, rsp_list, i)>>
         \o TimeEntries(switch_ip, mo_dict, rsp_list, i + 1)
    ELSE <<>>

RECURSIVE TimeOutput(_, _, _, _)
\* `for switch_ip, rsp_list in response_time_dict.items():` over the devices
\* left, idx being i: the entries the while loop adds; idx is set before the
\* for loop only
TimeOutput(devices, mo_dict, rsp_dict, i) ==
    IF devices = <<>> THEN <<>>
    ELSE LET entries == TimeEntries(Head(devices), mo_dict, rsp_dict[Head(devices)], i)
         IN  entries \o TimeOutput(Tail(devices), mo_dict, rsp_dict, i + Len(entries))

\* the final tasks of main: the response time summary goes to the log
main_final_tasks ==
    /\ pc = "done"
    /\ time_output' = TimeOutput(Devices, n9k_mo_dict, response_time_dict, 0)
    /\ pc' = "end"
    /\ UNCHANGED <<user_args, n9k_mo_dict, stats_dict, response_time_dict, cur, idx, auth_cookie,
                   nxapi_ep, dispatched, outcome, output, trace, called, fed, faults>>

Next ==
    \/ get_switch_stats
    \/ aaa_login
    \/ aaa_logout
    \/ dme_connect
    \/ nxapi_connect
    \/ connect_and_pull_stats_return
    \/ print_output
    \/ main_final_tasks

Spec == Init /\ [][Next]_vars

-----------------------------------------------------------------------------
\* Properties of the probe sequence (specification Spec)

Ended(d) == outcome[d] # "running"

\* the requests sent to device d, in the order they went out
SentTo(d) == SelectSeq(dispatched, LAMBDA e : e.sw = d)

\* the login of d returned a cookie
LoggedIn(d) == \E i \in 1..Len(dispatched) :
    dispatched[i].sw = d /\ dispatched[i].kind = "login" /\ dispatched[i].rsp = "ok"

\* the logout request of d went out
LogoutSent(d) == \E i \in 1..Len(dispatched) :
    dispatched[i].sw = d /\ dispatched[i].kind = "logout"

\* the login of d returned None
LoginRefused(d) == \E i \in 1..Len(dispatched) :
    dispatched[i].sw = d /\ dispatched[i].kind = "login" /\ dispatched[i].rsp = "none"

\* connect_and_pull_stats of d went on past its k-th endpoint, if it had a
\* further one
WentOn(d, k) ==
    (Ended(d) /\ k < Len(n9k_mo_dict)) => Len(SentTo(d)) > k

\* C1: once the login of a device returned a cookie, the logout request of
\* that device goes out before connect_and_pull_stats ends for it, on every
\* exit path (a later request failing or timing out, a parser raising).
C1_LogoutOnEveryExit ==
    \A d \in DeviceSet : (Ended(d) /\ LoggedIn(d)) => LogoutSent(d)

\* a device was left with a cookie and without a logout
C1_SessionLeaked ==
    \E d \in DeviceSet :
        /\ outcome[d] = "raised" /\ LoggedIn(d) /\ ~LogoutSent(d)
        /\ SentTo(d)[Len(SentTo(d))].kind = "dme"

\* C2: when the login of a device returns None, no further request of that
\* device goes out and no parser runs for it, its output holds only the
\* 'Switches' line (no interface, queue, watchdog or burst line), and the next
\* device of the inventory is still worked on.
C2_AuthFailureStopsDevice ==
    \A n \in 1..Len(Devices) :
        LET d == Devices[n]
        IN  LoginRefused(d) =>
              /\ \A i \in 1..Len(dispatched) :
                    dispatched[i].sw = d =>
                       /\ dispatched[i].kind = "login"
                       /\ ~dispatched[i].parsed /\ ~dispatched[i].changed
              /\ [k \in DOMAIN stats_dict[d] \ {"response_time"} |-> stats_dict[d][k]] = NewStats
              /\ output[d].printed =>
                    \A l \in 1..Len(output[d].lines) : output[d].lines[l].m = "Switches"
              /\ (Ended(d) /\ n < Len(Devices)) =>
                    \/ cur = n + 1 /\ pc = "pull" /\ idx = 0
                    \/ SentTo(Devices[n + 1]) # <<>>

\* the first device refused the login, both devices were printed and the
\* second one has interface lines
C2_Witness ==
    /\ pc = "done"
    /\ LoginRefused(Devices[1])
    /\ Len(SentTo(Devices[1])) = 1
    /\ output[Devices[1]].printed
    /\ output[Devices[2]].printed
    /\ \E l \in 1..Len(output[Devices[2]].lines) :
          output[Devices[2]].lines[l].m = "SwitchIntfStats"

\* the number of commands the arguments enable
EnabledCommands ==
    (IF user_args.burst THEN 1 ELSE 0) + (IF user_args.pfcwd THEN 1 ELSE 0)
    + (IF user_args.bufferstats THEN 2 ELSE 0)

C4_QueryInsideSession ==
    \A i \in 1..Len(dispatched) :
        dispatched[i].kind = "dme" =>
           /\ dispatched[i].cookie = TokenOf(dispatched[i].sw)
           /\ \E j \in 1..(i - 1) :
                 /\ dispatched[j].sw = dispatched[i].sw
                 /\ dispatched[j].kind = "login" /\ dispatched[j].rsp = "ok"
           /\ \A j \in 1..(i - 1) :
                 dispatched[j].sw = dispatched[i].sw => dispatched[j].kind # "logout"

\* the second device was queried inside its own session, after the first
\* device had logged out
C4_Witness ==
    \E i \in 1..Len(dispatched) :
        /\ dispatched[i].kind = "dme" /\ dispatched[i].sw = Devices[2]
        /\ LoggedIn(Devices[1]) /\ LogoutSent(Devices[1])
        /\ LogoutSent(Devices[2])

\* C5 (as stated): when a request other than the login gets a non-success
\* response (the transport returns None), its parser is not called, the
\* device's record is left unchanged, no timing record is stored for it, and
\* the remaining requests of the device still go out.
C5_FailedProbeLeavesNothing ==
    \A d \in DeviceSet :
        \A k \in 1..Len(SentTo(d)) :
            LET e == SentTo(d)[k]
            IN  (e.kind # "login" /\ e.rsp = "none") =>
                   /\ ~e.parsed /\ ~e.changed /\ ~e.timed
                   /\ WentOn(d, k)

\* C5 (amended): a structured query or a command that gets a non-success
\* response has no parser called, leaves the record unchanged and stores no
\* timing record; a logout that gets a non-success response has its timing
\* record stored all the same; in both cases the remaining requests of the
\* device still go out.
C5_FailedQueryLeavesNothing ==
    \A d \in DeviceSet :
        \A k \in 1..Len(SentTo(d)) :
            LET e == SentTo(d)[k]
            IN  (e.kind # "login" /\ e.rsp = "none") =>
                   /\ ~e.parsed /\ ~e.changed
                   /\ e.timed <=> e.kind = "logout"
                   /\ WentOn(d, k)

\* a structured query got a non-success response and the device went on to
\* complete its sequence
C5_Witness ==
    \E d \in DeviceSet :
        \E k \in 1..Len(SentTo(d)) :
            /\ SentTo(d)[k].kind = "dme" /\ SentTo(d)[k].rsp = "none"
            /\ outcome[d] = "completed"
            /\ Len(SentTo(d)) = Len(n9k_mo_dict)

\* a logout got a non-success response and its timing record was stored
C5_LogoutTimed ==
    \E i \in 1..Len(dispatched) :
        /\ dispatched[i].kind = "logout" /\ dispatched[i].rsp = "none"
        /\ dispatched[i].timed

\* C6: when a request other than the login exceeds the timeout, only that
\* request is given up: the remaining requests of the device (the logout
\* included) still go out; only a timeout of the login ends the whole device.
C6_TimeoutAbortsOnlyProbe ==
    \A d \in DeviceSet :
        \A k \in 1..Len(SentTo(d)) :
            (SentTo(d)[k].kind # "login" /\ SentTo(d)[k].rsp = "timeout") =>
               /\ outcome[d] # "raised"
               /\ WentOn(d, k)

\* a structured query timed out and it was the last request of the device
C6_DeviceAborted ==
    \E d \in DeviceSet :
        LET es == SentTo(d)
        IN  /\ outcome[d] = "raised"
            /\ es # <<>>
            /\ es[Len(es)].kind = "dme" /\ es[Len(es)].rsp = "timeout"
            /\ Len(es) < Len(BaseMoList)
            /\ ~LogoutSent(d)

\* device a failed while it was queried or printed
FailedDevice(a) ==
    \/ outcome[a] \in {"no_auth", "raised"}
    \/ \E i \in 1..Len(dispatched) : dispatched[i].sw = a /\ dispatched[i].rsp # "ok"
    \/ output[a].raised

\* C7: a failure of one device (a failed request, a parser raising, the
\* serializer raising) neither keeps the requests of another device from
\* going out nor keeps the output of another device from being printed.
C7_DevicesIndependent ==
    pc = "done" =>
       \A a, b \in DeviceSet :
          (a # b /\ FailedDevice(a) /\ ~FailedDevice(b)) =>
             /\ SentTo(b) # <<>>
             /\ ~PrintRaises(stats_dict[b]) => output[b].printed

\* the serializer raised on the first device and the second device, collected
\* without a failure, was never printed
C7_OutputLost ==
    /\ pc = "done"
    /\ output[Devices[1]].raised
    /\ outcome[Devices[2]] = "completed"
    /\ ~FailedDevice(Devices[2])
    /\ ~PrintRaises(stats_dict[Devices[2]])
    /\ ~output[Devices[2]].printed

-----------------------------------------------------------------------------
(***************************************************************************)
(* The text print_output_in_influxdb_lp builds, character by character.    *)
(***************************************************************************)
\* the printable ASCII characters in code order, from the blank (32) on; the
\* grave accent (96) is held by a name no character equals
Ascii == <<
    " ","!","\"","#","$","%","&","'","(",")","*","+",",","-",".","/",
    "0","1","2","3","4","5","6","7","8","9",":",";","<","=",">","?",
    "@","A","B","C","D","E","F","G","H","I","J","K","L","M","N","O",
    "P","Q","R","S","T","U","V","W","X","Y","Z","[","\\","]","^","_",
    "grave","a","b","c","d","e","f","g","h","i","j","k","l","m","n","o",
    "p","q","r","s","t","u","v","w","x","y","z","{","|","}","~" >>

\* ord(c) - 31 for a printable character
Ord(c) == CHOOSE i \in 1..Len(Ascii) : Ascii[i] = c

RECURSIVE StrLess(_, _)
\* a < b for two str: the first differing character decides, a proper prefix is less
StrLess(a, b) ==
    IF b = <<>> THEN FALSE
    ELSE IF a = <<>> THEN TRUE
    ELSE IF Head(a) = Head(b) THEN StrLess(Tail(a), Tail(b))
    ELSE Ord(Head(a)) < Ord(Head(b))

\* the text of every dict key the output spells out
KeyText ==
    ("admin_state" :> <<"a","d","m","i","n","_","s","t","a","t","e">>) @@
    ("oper_state" :> <<"o","p","e","r","_","s","t","a","t","e">>) @@
    ("oper_mode" :> <<"o","p","e","r","_","m","o","d","e">>) @@
    ("modTs" :> <<"m","o","d","T","s">>) @@
    ("peer_type" :> <<"p","e","e","r","_","t","y","p","e">>) @@
    ("peer_intf" :> <<"p","e","e","r","_","i","n","t","f">>) @@
    ("peer" :> <<"p","e","e","r">>) @@
    ("peer_name" :> <<"p","e","e","r","_","n","a","m","e">>) @@
    ("description" :> <<"d","e","s","c","r","i","p","t","i","o","n">>) @@
    ("oper_speed" :> <<"o","p","e","r","_","s","p","e","e","d">>) @@
    ("down_reason" :> <<"d","o","w","n","_","r","e","a","s","o","n">>) @@
    ("rx_broadcast_pkts" :> <<"r","x","_","b","r","o","a","d","c","a","s","t","_","p","k","t","s">>) @@
    ("rx_multicast_pkts" :> <<"r","x","_","m","u","l","t","i","c","a","s","t","_","p","k","t","s">>) @@
    ("rx_ucast_pkts" :> <<"r","x","_","u","c","a","s","t","_","p","k","t","s">>) @@
    ("rx_bytes" :> <<"r","x","_","b","y","t","e","s">>) @@
    ("tx_broadcast_pkts" :> <<"t","x","_","b","r","o","a","d","c","a","s","t","_","p","k","t","s">>) @@
    ("tx_multicast_pkts" :> <<"t","x","_","m","u","l","t","i","c","a","s","t","_","p","k","t","s">>) @@
    ("tx_ucast_pkts" :> <<"t","x","_","u","c","a","s","t","_","p","k","t","s">>) @@
    ("tx_bytes" :> <<"t","x","_","b","y","t","e","s">>) @@
    ("rx_crc" :> <<"r","x","_","c","r","c">>) @@
    ("rx_crc_stomped" :> <<"r","x","_","c","r","c","_","s","t","o","m","p","e","d">>) @@
    ("tx_jumbo" :> <<"t","x","_","j","u","m","b","o">>) @@
    ("rx_jumbo" :> <<"r","x","_","j","u","m","b","o">>) @@
    ("rxPkts1024to1518Octets" :> <<"r","x","P","k","t","s","1","0","2","4","t","o","1","5","1","8","O","c","t","e","t","s">>) @@
    ("rxPkts512to1023Octets" :> <<"r","x","P","k","t","s","5","1","2","t","o","1","0","2","3","O","c","t","e","t","s">>) @@
    ("rxPkts256to511Octets" :> <<"r","x","P","k","t","s","2","5","6","t","o","5","1","1","O","c","t","e","t","s">>) @@
    ("rxPkts128to255Octets" :> <<"r","x","P","k","t","s","1","2","8","t","o","2","5","5","O","c","t","e","t","s">>) @@
    ("rxPkts65to127Octets" :> <<"r","x","P","k","t","s","6","5","t","o","1","2","7","O","c","t","e","t","s">>) @@
    ("rxPkts64Octets" :> <<"r","x","P","k","t","s","6","4","O","c","t","e","t","s">>) @@
    ("txPkts1024to1518Octets" :> <<"t","x","P","k","t","s","1","0","2","4","t","o","1","5","1","8","O","c","t","e","t","s">>) @@
    ("txPkts512to1023Octets" :> <<"t","x","P","k","t","s","5","1","2","t","o","1","0","2","3","O","c","t","e","t","s">>) @@
    ("txPkts256to511Octets" :> <<"t","x","P","k","t","s","2","5","6","t","o","5","1","1","O","c","t","e","t","s">>) @@
    ("txPkts128to255Octets" :> <<"t","x","P","k","t","s","1","2","8","t","o","2","5","5","O","c","t","e","t","s">>) @@
    ("txPkts65to127Octets" :> <<"t","x","P","k","t","s","6","5","t","o","1","2","7","O","c","t","e","t","s">>) @@
    ("txPkts64Octets" :> <<"t","x","P","k","t","s","6","4","O","c","t","e","t","s">>) @@
    ("tx_pkts" :> <<"t","x","_","p","k","t","s">>) @@
    ("drop_bytes" :> <<"d","r","o","p","_","b","y","t","e","s">>) @@
    ("drop_pkts" :> <<"d","r","o","p","_","p","k","t","s">>) @@
    ("rx_pause" :> <<"r","x","_","p","a","u","s","e">>) @@
    ("tx_pause" :> <<"t","x","_","p","a","u","s","e">>) @@
    ("rand_drop_bytes" :> <<"r","a","n","d","_","d","r","o","p","_","b","y","t","e","s">>) @@
    ("rand_drop_pkts" :> <<"r","a","n","d","_","d","r","o","p","_","p","k","t","s">>) @@
    ("ecn_marked_pkts" :> <<"e","c","n","_","m","a","r","k","e","d","_","p","k","t","s">>) @@
    ("q_depth" :> <<"q","_","d","e","p","t","h">>) @@
    ("peak_cell_drop_pg" :> <<"p","e","a","k","_","c","e","l","l","_","d","r","o","p","_","p","g">>) @@
    ("peak_cell_no_drop" :> <<"p","e","a","k","_","c","e","l","l","_","n","o","_","d","r","o","p">>) @@
    ("cell_count_drop_pg" :> <<"c","e","l","l","_","c","o","u","n","t","_","d","r","o","p","_","p","g">>) @@
    ("cell_count_no_drop_pg" :> <<"c","e","l","l","_","c","o","u","n","t","_","n","o","_","d","r","o","p","_","p","g">>) @@
    ("q" :> <<"q">>) @@
    ("start-depth" :> <<"s","t","a","r","t","-","d","e","p","t","h">>) @@
    ("end-depth" :> <<"e","n","d","-","d","e","p","t","h">>) @@
    ("peak" :> <<"p","e","a","k">>) @@
    ("peak-time" :> <<"p","e","a","k","-","t","i","m","e">>) @@
    ("duration" :> <<"d","u","r","a","t","i","o","n">>) @@
    ("location" :> <<"l","o","c","a","t","i","o","n">>) @@
    ("switchname" :> <<"s","w","i","t","c","h","n","a","m","e">>) @@
    ("type" :> <<"t","y","p","e">>) @@
    ("response_time" :> <<"r","e","s","p","o","n","s","e","_","t","i","m","e">>) @@
    ("model" :> <<"m","o","d","e","l">>) @@
    ("cpu_kernel" :> <<"c","p","u","_","k","e","r","n","e","l">>) @@
    ("cpu_user" :> <<"c","p","u","_","u","s","e","r">>) @@
    ("mem_total" :> <<"m","e","m","_","t","o","t","a","l">>) @@
    ("mem_used" :> <<"m","e","m","_","u","s","e","d">>) @@
    ("sys_ver" :> <<"s","y","s","_","v","e","r">>) @@
    ("kernel_uptime" :> <<"k","e","r","n","e","l","_","u","p","t","i","m","e">>) @@
    ("switch" :> <<"s","w","i","t","c","h">>) @@
    ("intf" :> <<"i","n","t","f">>) @@
    ("instance" :> <<"i","n","s","t","a","n","c","e">>)

\* the dict keys in the order sorted() gives them
SortedKeys == <<
    "admin_state", "cell_count_drop_pg", "cell_count_no_drop_pg", "cpu_kernel", "cpu_user",
    "description", "down_reason", "drop_bytes", "drop_pkts", "duration",
    "ecn_marked_pkts", "end-depth", "instance", "intf", "kernel_uptime",
    "location", "mem_total", "mem_used", "modTs", "model",
    "oper_mode", "oper_speed", "oper_state", "peak", "peak-time",
    "peak_cell_drop_pg", "peak_cell_no_drop", "peer", "peer_intf", "peer_name",
    "peer_type", "q", "q_depth", "rand_drop_bytes", "rand_drop_pkts",
    "response_time", "rxPkts1024to1518Octets", "rxPkts128to255Octets", "rxPkts256to511Octets", "rxPkts512to1023Octets",
    "rxPkts64Octets", "rxPkts65to127Octets", "rx_broadcast_pkts", "rx_bytes", "rx_crc",
    "rx_crc_stomped", "rx_jumbo", "rx_multicast_pkts", "rx_pause", "rx_ucast_pkts",
    "start-depth", "switch", "switchname", "sys_ver", "txPkts1024to1518Octets",
    "txPkts128to255Octets", "txPkts256to511Octets", "txPkts512to1023Octets", "txPkts64Octets", "txPkts65to127Octets",
    "tx_broadcast_pkts", "tx_bytes", "tx_jumbo", "tx_multicast_pkts", "tx_pause",
    "tx_pkts", "tx_ucast_pkts", "type" >>

\* the keys of the function-dict d as sorted(d.items()) visits them
SortedKeysOf(d) == SelectSeq(SortedKeys, LAMBDA k : k \in DOMAIN d)

\* days from 1970-01-01 to the day d of month m of year y (proleptic Gregorian)
DaysFromCivil(y, m, d) ==
    LET yy  == IF m <= 2 THEN y - 1 ELSE y
        era == yy \div 400
        yoe == yy - era * 400
        mp  == IF m > 2 THEN m - 3 ELSE m + 9
        doy == (153 * mp + 2) \div 5 + d - 1
        doe == yoe * 365 + yoe \div 4 - yoe \div 100 + doy
    IN  era * 146097 + doe - 719468

\* the number written at positions a..b of s
Num(s, a, b) == DigitsToInt(SubSeq(s, a, b))

\* datetime.fromisoformat(s) for a text IsIsoFormat accepts, as seconds since
\* the epoch and microseconds; a text without offset is read as UTC
FromIsoFormat(s) ==
    LET days == DaysFromCivil(Num(s, 1, 4), Num(s, 6, 7), Num(s, 9, 10))
        hms  == IF Len(s) >= 19
                THEN Num(s, 12, 13) * 3600 + Num(s, 15, 16) * 60 + Num(s, 18, 19) ELSE 0
        ms   == IF Len(s) \in {23, 29} THEN Num(s, 21, 23) ELSE 0
        o    == IF Len(s) = 25 THEN 20 ELSE IF Len(s) = 29 THEN 24 ELSE 0
        off  == IF o = 0 THEN 0
                ELSE (IF s[o] = "-" THEN 0 - 1 ELSE 1)
                     * (Num(s, o + 1, o + 2) * 3600 + Num(s, o + 4, o + 5) * 60)
    IN  [secs |-> days * 86400 + hms - off, us |-> ms * 1000]

\* datetime.strptime(v, '%Y/%m/%d %H:%M:%S:%f') for a text IsPeakTimeFormat
\* accepts, read as UTC; %f takes one to six digits, padded on the right
FromPeakTime(v) ==
    [secs |-> DaysFromCivil(Num(v, 1, 4), Num(v, 6, 7), Num(v, 9, 10)) * 86400
              + Num(v, 12, 13) * 3600 + Num(v, 15, 16) * 60 + Num(v, 18, 19),
     us |-> DigitsToInt(SubSeq(SubSeq(v, 21, Len(v)) \o <<"0","0","0","0","0">>, 1, 6))]

\* the zero-padded decimal text of n on w digits
Padded(n, w) == [i \in 1..(w - Len(NatToStr(n))) |-> "0"] \o NatToStr(n)

\* timedelta(hours=7)
TZ_HOURS == 7

\* str(int(datetime.timestamp(utc) * 1000000) * 1000) for utc = t + hours.
\* For instants from 2005-09-05 to 2038 the double product is the exact
\* number of microseconds, so int() truncates nothing.
TsNs(t, hours) ==
    NatToStr(t.secs + hours * 3600) \o Padded(t.us, 6) \o <<"0","0","0">>

m_Switches == <<"S","w","i","t","c","h","e","s">>
m_SwitchBufferStats == <<"S","w","i","t","c","h","B","u","f","f","e","r","S","t","a","t","s">>
m_SwitchIntfStats == <<"S","w","i","t","c","h","I","n","t","f","S","t","a","t","s">>
m_SwitchQStats == <<"S","w","i","t","c","h","Q","S","t","a","t","s">>
m_SwitchPFCWD == <<"S","w","i","t","c","h","P","F","C","W","D">>
m_SwitchBurst == <<"S","w","i","t","c","h","B","u","r","s","t">>
s_threshold == <<"1","0",".","5","(","1",")">>

\* the address the output names a switch by
switch_ip_text(sw) ==
    <<"1","0",".","0",".","0",".">> \o (IF sw = Devices[1] THEN <<"1">> ELSE <<"2">>)

\* ',' + key + '=' + val
Tag(key, val) == <<",">> \o key \o <<"=">> \o val
\* sep + key + '=' + val
Field(sep, key, val) == sep \o key \o <<"=">> \o val
\* '"' + val + '"'
Quoted(val) == <<"\"">> \o val \o <<"\"">>
\* `if key in d:` tags = tags + ',key=' + d[key]
TagOf(d, key) == IF key \in DOMAIN d THEN Tag(KeyText[key], d[key]) ELSE <<>>
\* `if key in d:` tags = tags + ',key=' + str(d[key])
TagStrOf(d, key) == IF key \in DOMAIN d THEN Tag(KeyText[key], Str(d[key])) ELSE <<>>
\* `if key in d:` fields = fields + ',key=' + str(d[key])
CommaFieldOf(d, key) ==
    IF key \in DOMAIN d THEN Field(<<",">>, KeyText[key], Str(d[key])) ELSE <<>>
\* sep = ' ' if fields == '' else ','
SepFor(fields) == IF fields = <<>> THEN <<" ">> ELSE <<",">>

\* the 'Switches' line without its line break
switch_line(switch_ip, st) ==
    LET switch_tags ==
            TagOf(st, "location") \o Tag(KeyText["switch"], switch_ip)
            \o TagOf(st, "switchname") \o TagOf(st, "type")
        switch_fields ==
            (IF "response_time" \in DOMAIN st
             THEN Field(<<" ">>, KeyText["response_time"], Str(st["response_time"])) ELSE <<>>)
            \o (IF "model" \in DOMAIN st
                THEN Field(<<",">>, KeyText["model"], Quoted(st["model"])) ELSE <<>>)
            \o CommaFieldOf(st, "cpu_kernel") \o CommaFieldOf(st, "cpu_user")
            \o CommaFieldOf(st, "mem_total") \o CommaFieldOf(st, "mem_used")
            \o (IF "sys_ver" \in DOMAIN st
                THEN Field(<<",">>, KeyText["sys_ver"], Quoted(st["sys_ver"])) ELSE <<>>)
            \o CommaFieldOf(st, "kernel_uptime")
    IN  m_Switches \o switch_tags \o switch_fields

\* one 'SwitchBufferStats' line without its line break
buffer_line(switch_ip, st, instance, instance_dict) ==
    LET buffer_tags ==
            Tag(KeyText["instance"], Str(instance)) \o TagOf(st, "location")
            \o Tag(KeyText["switch"], switch_ip)
            \o TagOf(st, "switchname") \o TagOf(st, "type")
        buffer_fields ==
            (IF "peak_cell_drop_pg" \in DOMAIN instance_dict
             THEN Field(<<" ">>, KeyText["peak_cell_drop_pg"], Str(instance_dict["peak_cell_drop_pg"]))
             ELSE <<>>)
            \o CommaFieldOf(instance_dict, "peak_cell_no_drop")
            \o CommaFieldOf(instance_dict, "cell_count_drop_pg")
            \o CommaFieldOf(instance_dict, "cell_count_no_drop_pg")
    IN  m_SwitchBufferStats \o buffer_tags \o buffer_fields

\* (ModTsHoursAlways: the adjustment as it was before the version test)
ModTsHoursAlways(sys_ver) == TZ_HOURS
\* the hours added to an interface's modTs: none when sys_ver is unknown or
\* does not compare below '10.5(1)' as a str
ModTsHours(sys_ver) ==
    IF sys_ver = <<>> THEN 0
    ELSE IF StrLess(sys_ver, s_threshold) THEN TZ_HOURS ELSE 0

RECURSIVE MetaLoop(_, _, _, _)
\* for key, val in sorted(per_intf_dict['meta'].items()): [tags, ts]
MetaLoop(meta, keys, sys_ver, acc) ==
    IF keys = <<>> THEN acc
    ELSE LET key == Head(keys)
             val == Str(meta[key])
         IN  MetaLoop(meta, Tail(keys), sys_ver,
                 IF val = <<>> THEN acc
                 ELSE IF key = "modTs"
                      THEN [acc EXCEPT !.ts = TsNs(FromIsoFormat(val), ModTsHours(sys_ver))]
                      ELSE [acc EXCEPT !.tags = @ \o Tag(KeyText[key], val)])

RECURSIVE DataLoop(_, _, _)
\* for key, val in sorted(per_intf_dict['data'].items()): intf_fields
DataLoop(data, keys, intf_fields) ==
    IF keys = <<>> THEN intf_fields
    ELSE LET key == Head(keys)
             val == data[key]
             sep == SepFor(intf_fields)
         IN  DataLoop(data, Tail(keys),
                 IF val = NoneVal THEN intf_fields
                 ELSE IF key \in {"description", "down_reason"}
                      THEN intf_fields \o Field(sep, KeyText[key], Quoted(Str(val)))
                      ELSE intf_fields \o Field(sep, KeyText[key], Str(val)))

\* one 'SwitchIntfStats' line without its line break
intf_line(switch_ip, st, sys_ver, intf, per_intf_dict) ==
    LET m == IF "meta" \in DOMAIN per_intf_dict
             THEN MetaLoop(per_intf_dict["meta"], SortedKeysOf(per_intf_dict["meta"]), sys_ver,
                           [tags |-> TagOf(st, "location"), ts |-> <<>>])
             ELSE [tags |-> TagOf(st, "location"), ts |-> <<>>]
        intf_tags == m.tags \o Tag(KeyText["switch"], switch_ip) \o Tag(KeyText["intf"], intf)
                     \o TagStrOf(st, "switchname") \o TagOf(st, "type")
        intf_fields == IF "data" \in DOMAIN per_intf_dict
                       THEN DataLoop(per_intf_dict["data"], SortedKeysOf(per_intf_dict["data"]), <<>>)
                       ELSE <<>>
    IN  m_SwitchIntfStats \o intf_tags \o intf_fields \o <<" ">> \o m.ts

RECURSIVE QLoop(_, _, _)
\* for key, val in sorted(per_q_dict.items()): q_fields; the timestamp the
\* loop computes from modTs is not written
QLoop(per_q_dict, keys, q_fields) ==
    IF keys = <<>> THEN q_fields
    ELSE LET key == Head(keys)
             val == per_q_dict[key]
         IN  QLoop(per_q_dict, Tail(keys),
                 IF val = NoneVal \/ key = "modTs" THEN q_fields
                 ELSE q_fields \o Field(SepFor(q_fields), KeyText[key], Str(val)))

\* one 'SwitchQStats' line without its line break
q_line(switch_ip, st, intf, per_intf_dict, q_name, per_q_dict) ==
    LET meta == IF "meta" \in DOMAIN per_intf_dict THEN per_intf_dict["meta"] ELSE EmptyDict
        q_tags == Tag(KeyText["intf"], intf) \o TagOf(st, "location")
                  \o TagOf(meta, "peer") \o TagOf(meta, "peer_intf")
                  \o TagOf(meta, "peer_name") \o TagOf(meta, "peer_type")
                  \o TagStrOf(st, "switchname") \o Tag(KeyText["q"], q_name)
                  \o Tag(KeyText["switch"], switch_ip) \o TagOf(st, "type")
    IN  m_SwitchQStats \o q_tags \o QLoop(per_q_dict, SortedKeysOf(per_q_dict), <<>>)

RECURSIVE WdLoop(_, _)
\* for k, v in pfcwd_dict.items(): [tags, fields]
WdLoop(items, acc) ==
    IF items = <<>> THEN acc
    ELSE WdLoop(Tail(items),
             IF Contains(Head(items).k, s_qosgrp)
             THEN [acc EXCEPT !.tags = @ \o Tag(Head(items).k, Str(Head(items).v))]
             ELSE [acc EXCEPT !.fields = @ \o Field(SepFor(@), Head(items).k, Str(Head(items).v))])

\* the 'SwitchPFCWD' line of an interface without its line break
wd_line(switch_ip, st, intf, pfcwd_dict) ==
    LET w == WdLoop(pfcwd_dict,
                    [tags |-> Tag(KeyText["intf"], intf) \o TagOf(st, "location"), fields |-> <<>>])
    IN  m_SwitchPFCWD \o w.tags \o Tag(KeyText["switch"], switch_ip)
        \o TagStrOf(st, "switchname") \o w.fields

\* the keys of b_dict in the order parse_burstdetect inserts them
BurstKeys == <<"q", "start-depth", "end-depth", "peak", "peak-time", "duration">>

\* (PeakTimeNsShifted: the peak-time with the 7 hours of modTs added)
PeakTimeNsShifted(v) == TsNs(FromPeakTime(v), TZ_HOURS)
\* ts_ns_b: str(int(datetime.timestamp(strptime(v, format_str)) * 1000000) * 1000)
PeakTimeNs(v) == TsNs(FromPeakTime(v), 0)

RECURSIVE BurstLoop(_, _, _)
\* for k, v in burst_dict.items(): [tags, fields, ts]
BurstLoop(burst_dict, keys, acc) ==
    IF keys = <<>> THEN acc
    ELSE LET k == Head(keys)
             v == burst_dict[k]
         IN  BurstLoop(burst_dict, Tail(keys),
                 IF Contains(KeyText[k], <<"q">>)
                 THEN [acc EXCEPT !.tags = @ \o Tag(KeyText[k], Str(v))]
                 ELSE IF Contains(KeyText[k], KeyText["peak-time"])
                 THEN [acc EXCEPT !.ts = PeakTimeNs(v)]
                 ELSE [acc EXCEPT !.fields = @ \o Field(SepFor(@), KeyText[k], Str(v))])

\* one 'SwitchBurst' line without its line break
burst_line(switch_ip, st, intf, burst_dict) ==
    LET b == BurstLoop(burst_dict, SelectSeq(BurstKeys, LAMBDA k : k \in DOMAIN burst_dict),
                       [tags |-> Tag(KeyText["intf"], intf) \o TagOf(st, "location"),
                        fields |-> <<>>, ts |-> <<>>])
    IN  m_SwitchBurst \o b.tags \o Tag(KeyText["switch"], switch_ip)
        \o TagStrOf(st, "switchname") \o b.fields \o <<" ">> \o b.ts

\* a line of the output: its measurement and its text without the line break
TextLine(m, text) == [m |-> m, text |-> text]

\* sys_ver of print_output_in_influxdb_lp: '' unless the record has one
SysVerOf(st) == IF "sys_ver" \in DOMAIN st THEN st["sys_ver"] ELSE <<>>

BufferText(switch_ip, st) ==
    IF "buffer_usage" \notin DOMAIN st THEN <<>>
    ELSE [i \in 1..Len(st["buffer_usage"]) |->
            TextLine("SwitchBufferStats",
                     buffer_line(switch_ip, st, st["buffer_usage"][i].k, st["buffer_usage"][i].v))]
IntfText(switch_ip, st) ==
    [i \in 1..Len(st["intf"]) |->
        TextLine("SwitchIntfStats",
                 intf_line(switch_ip, st, SysVerOf(st), st["intf"][i].k, st["intf"][i].v))]
QText(switch_ip, st) ==
    Concat([i \in 1..Len(st["intf"]) |->
        LET per_intf_dict == st["intf"][i].v
        IN  IF "out_queue" \notin DOMAIN per_intf_dict THEN <<>>
            ELSE [j \in 1..Len(per_intf_dict["out_queue"]) |->
                    TextLine("SwitchQStats",
                             q_line(switch_ip, st, st["intf"][i].k, per_intf_dict,
                                    per_intf_dict["out_queue"][j].k,
                                    per_intf_dict["out_queue"][j].v))]])
WdText(switch_ip, st) ==
    Concat([i \in 1..Len(st["intf"]) |->
        LET per_intf_dict == st["intf"][i].v
        IN  IF "pfcwd" \in DOMAIN per_intf_dict /\ per_intf_dict["pfcwd"] # <<>>
            THEN <<TextLine("SwitchPFCWD",
                            wd_line(switch_ip, st, st["intf"][i].k, per_intf_dict["pfcwd"]))>>
            ELSE <<>>])
BurstText(switch_ip, st) ==
    Concat([i \in 1..Len(st["intf"]) |->
        LET per_intf_dict == st["intf"][i].v
        IN  IF "burst" \in DOMAIN per_intf_dict /\ ~SkipsBurst(per_intf_dict)
            THEN [j \in 1..Len(per_intf_dict["burst"]) |->
                    TextLine("SwitchBurst",
                             burst_line(switch_ip, st, st["intf"][i].k, per_intf_dict["burst"][j]))]
            ELSE <<>>])

\* final_print_string of print_output_in_influxdb_lp, one entry per line; an
\* exception anywhere leaves nothing on stdout
final_print_string(switch_ip, st) ==
    IF PrintRaises(st) THEN [printed |-> FALSE, raised |-> TRUE, lines |-> <<>>]
    ELSE [printed |-> TRUE, raised |-> FALSE,
          lines |-> <<TextLine("Switches", switch_line(switch_ip, st))>>
                    \o BufferText(switch_ip, st) \o IntfText(switch_ip, st)
                    \o QText(switch_ip, st) \o WdText(switch_ip, st) \o BurstText(switch_ip, st)]

(***************************************************************************)
(* SpecP: one collection cycle of one switch from the first query to the   *)
(* text on stdout.  The extractors run in the order of n9k_mo_dict, each   *)
(* on one answer of the switch; an answer without rows leaves the record   *)
(* as it is, and an exception ends the cycle with nothing printed.         *)
(***************************************************************************)
v_93 == <<"9",".","3","(","9",")">>
v_1010 == <<"1","0",".","1","0","(","1",")">>

\* row without its attribute key
Without(row, key) == [k \in DOMAIN row \ {key} |-> row[k]]

InitP ==
    /\ pc = "parse_sysmgrShowVersion"
    /\ user_args = [burst |-> TRUE, pfcwd |-> TRUE, bufferstats |-> TRUE]
    /\ n9k_mo_dict = WithCommands(BaseMoList, user_args)
    /\ stats_dict = [d \in DeviceSet |-> NewStats]
    /\ response_time_dict = [d \in DeviceSet |-> <<>>]
    /\ cur = 1
    /\ idx = 0
    /\ auth_cookie = NoneVal
    /\ nxapi_ep = FALSE
    /\ dispatched = <<>>
    /\ outcome = [d \in DeviceSet |-> "running"]
    /\ output = [d \in DeviceSet |-> NotPrinted]
    /\ trace = <<>>
    /\ called = {}
    /\ fed = <<>>
    /\ faults = 0
    /\ time_output = <<>>

\* the state after the extractor named by was given the rows raws (none when
\* the answer had no rows) and left the accumulator r; next is the extractor
\* that follows it
PDone(by, raws, r, next) ==
    /\ stats_dict' = [stats_dict EXCEPT ![XSwitch] = r.st]
    /\ trace' = r.trace
    /\ outcome' = [outcome EXCEPT ![XSwitch] = IF r.raised THEN "raised" ELSE @]
    /\ pc' = IF r.raised THEN "done" ELSE next
    /\ called' = IF raws = <<>> THEN called ELSE called \cup {by}
    /\ fed' = fed \o [i \in 1..Len(raws) |-> [by |-> by, raw |-> raws[i]]]
    /\ UNCHANGED <<user_args, n9k_mo_dict, response_time_dict, cur, idx, auth_cookie,
                   nxapi_ep, dispatched, output, faults, time_output>>

\* the attributes of the rows of an imdata list about the switch itself
AttrsOf(imdata_list, mo) == [i \in 1..Len(imdata_list) |-> imdata_list[i][mo]["attributes"]]

VersionAnswers ==
    {<<>>, SwitchImdata(ep_sysmgrShowVersion, [nxosVersion |-> v_nxos])}
    \cup {SwitchImdata(ep_sysmgrShowVersion, [nxosVersion |-> v, kernelUptime |-> v_uptime]) :
            v \in {v_93, s_threshold, v_nxos, v_1010}}

P_parse_sysmgrShowVersion ==
    /\ pc = "parse_sysmgrShowVersion"
    /\ \E p \in VersionAnswers :
          PDone("parse_sysmgrShowVersion", AttrsOf(p, MoOf(ep_sysmgrShowVersion)),
                parse_sysmgrShowVersion(p, XAcc, MoOf(ep_sysmgrShowVersion)),
                "parse_pieCpuUsage")

P_parse_pieCpuUsage ==
    /\ pc = "parse_pieCpuUsage"
    /\ \E p \in {<<>>, GoodImdata(ep_pieCpuUsage)} :
          PDone("parse_pieCpuUsage", AttrsOf(p, MoOf(ep_pieCpuUsage)),
                parse_pieCpuUsage(p, XAcc, MoOf(ep_pieCpuUsage)), "parse_intf")

P_parse_intf ==
    /\ pc = "parse_intf"
    /\ \E p \in {<<IntfRow(n_eth1_1), IntfRow(n_eth1_2)>>} :
          PDone("parse_intf", p, parse_intf(p, XAcc), "parse_ethpmPhysIf")

\* the full row of an endpoint, and the row without one optional attribute
Answers(endpoint, optional) ==
    {GoodImdata(endpoint)} \cup {<<Without(GoodImdata(endpoint)[1], a)>> : a \in optional}

P_parse_ethpmPhysIf ==
    /\ pc = "parse_ethpmPhysIf"
    /\ \E p \in Answers(ep_ethpmPhysIf, {"operSpeed", "operSt", "operStQual"}) :
          PDone("parse_ethpmPhysIf", p, parse_ethpmPhysIf(p, XAcc), "parse_rmonIfHCIn")

\* the answers to the ingress-counters query: no rows, the row of eth1/1,
\* and that row with a dn that is the bare interface name
HCInAnswers ==
    {<<>>, GoodImdata(ep_rmonIfHCIn),
     <<[GoodImdata(ep_rmonIfHCIn)[1] EXCEPT !.dn = n_eth1_1]>>}

P_parse_rmonIfHCIn ==
    /\ pc = "parse_rmonIfHCIn"
    /\ \E p \in HCInAnswers :
          PDone("parse_rmonIfHCIn", p, parse_rmonIfHCIn(p, XAcc), "parse_ipqosQueuingStats")

P_parse_ipqosQueuingStats ==
    /\ pc = "parse_ipqosQueuingStats"
    /\ \E p \in {<<>>, GoodImdata(ep_ipqosQueuingStats)} :
          PDone("parse_ipqosQueuingStats", p, parse_ipqosQueuingStats(p, XAcc), "parse_lldpAdjEp")

P_parse_lldpAdjEp ==
    /\ pc = "parse_lldpAdjEp"
    /\ \E p \in Answers(ep_lldpAdjEp, {"enCap", "sysDesc", "portIdV"}) :
          PDone("parse_lldpAdjEp", p, parse_lldpAdjEp(p, XAcc), "parse_burstdetect")

\* the answers to show queuing burst-detect detail: no rows, one event of each
\* unit, two events, and one event without its peak-time whose if-str is in
\* lower case already
BurstAnswers ==
    {<<>>, <<BurstRow(t_Eth1_1, v_dur_us), BurstRow(t_Eth1_1, v_dur_ms)>>,
     <<Without(BurstRow(n_eth1_1, v_dur_us), "peak-time")>>}
    \cup {<<BurstRow(t_Eth1_1, d)>> : d \in {v_dur_us, v_dur_ms, v_dur_s, v_dur_bad}}

P_parse_burstdetect ==
    /\ pc = "parse_burstdetect"
    /\ \E p \in BurstAnswers :
          PDone("parse_burstdetect", p,
                IF p = <<>> THEN XAcc ELSE parse_burstdetect(BurstPayload(p), XAcc),
                "parse_pfcqueuedetail")

\* the answers to show queuing pfc-queue detail: no rows, an interface with
\* its statistics, an interface without any
PfcAnswers == {<<>>, <<PfcRow(t_Ethernet1_1)>>, <<SubSeq(PfcRow(t_Ethernet1_1), 1, 1)>>}

P_parse_pfcqueuedetail ==
    /\ pc = "parse_pfcqueuedetail"
    /\ \E p \in PfcAnswers :
          PDone("parse_pfcqueuedetail", p,
                IF p = <<>> THEN XAcc ELSE parse_pfcqueuedetail(PfcPayload(p), XAcc),
                "parse_bufferpktstats")

v_NA == <<"N","/","A">>

\* one instance row of show hardware internal buffer info pkt-stats
BufferRow(drop_pg, no_drop_pg) ==
    [instance |-> v_0, max_cell_usage_drop_pg |-> drop_pg,
     max_cell_usage_no_drop_pg |-> no_drop_pg, switch_cell_count_drop_pg |-> v_2]
BufferRowSet == {BufferRow(a, b) : a, b \in {v_3, v_NA}}
\* the output of the command decoded by json.loads
BufferOutput(rows) ==
    [type |-> "str", text |-> s_TABLE_qosgrp_stats,
     json |-> [TABLE_module |-> [ROW_module |-> [TABLE_instance |-> [ROW_instance |-> rows]]]]]

P_parse_bufferpktstats ==
    /\ pc = "parse_bufferpktstats"
    /\ \E p \in {<<>>} \cup {<<r>> : r \in BufferRowSet} :
          PDone("parse_bufferpktstats", p,
                IF p = <<>> THEN XAcc ELSE parse_bufferpktstats(BufferOutput(p), XAcc),
                "print")

\* print_output_in_influxdb_lp on the record of the switch: as main hands it
\* over, response_time stored, and as any other caller may, without it
P_print_output_in_influxdb_lp ==
    /\ pc = "print"
    /\ \E timed \in BOOLEAN :
          /\ stats_dict' = [stats_dict EXCEPT ![XSwitch] =
                               IF timed THEN Put(@, "response_time", v_0) ELSE @]
          /\ \E out \in {final_print_string(switch_ip_text(XSwitch), stats_dict'[XSwitch])} :
                output' = [output EXCEPT ![XSwitch] = out]
    /\ pc' = "done"
    /\ UNCHANGED <<user_args, n9k_mo_dict, response_time_dict, cur, idx, auth_cookie, nxapi_ep,
                   dispatched, outcome, trace, called, fed, faults, time_output>>

NextP ==
    \/ P_parse_sysmgrShowVersion
    \/ P_parse_pieCpuUsage
    \/ P_parse_intf
    \/ P_parse_ethpmPhysIf
    \/ P_parse_rmonIfHCIn
    \/ P_parse_ipqosQueuingStats
    \/ P_parse_lldpAdjEp
    \/ P_parse_burstdetect
    \/ P_parse_pfcqueuedetail
    \/ P_parse_bufferpktstats
    \/ P_print_output_in_influxdb_lp

SpecP == InitP /\ [][NextP]_vars

\* the record of the switch, and what its cycle left on stdout
PStats == stats_dict[XSwitch]
POut == output[XSwitch]
\* the lines of measurement m on stdout
PLines(m) == SelectSeq(POut.lines, LAMBDA l : l.m = m)

(***************************************************************************)
(* The timestamp of an interface line (SpecP).                             *)
(***************************************************************************)
\* 2024-05-18T18:04:19.900+00:00 in epoch nanoseconds, and 7 hours later
v_T1_ns == <<"1","7","1","6","0","5","5","4","5","9","9","0","0","0","0","0","0","0","0">>
v_T1_ns_7h == <<"1","7","1","6","0","8","0","6","5","9","9","0","0","0","0","0","0","0","0">>

EndsWith(s, suffix) == Len(s) >= Len(suffix) /\ SubSeq(s, Len(s) - Len(suffix) + 1, Len(s)) = suffix

\* the interface line of interface k on stdout
PIntfLine(k) ==
    PLines("SwitchIntfStats")[CHOOSE i \in 1..Len(PStats["intf"]) : PStats["intf"][i].k = k].text
\* meta.modTs of interface k, None when it has none
PModTs(k) == Get(Sub(OGet(PStats["intf"], k), "meta"), "modTs")

\* the cycle printed a switch whose firmware version is ver and whose
\* interface eth1/1 has the modTs 2024-05-18T18:04:19.900+00:00
C12Case(ver) ==
    /\ POut.printed
    /\ SysVerOf(PStats) = ver
    /\ PModTs(n_eth1_1) = v_T1

\* C12: for firmware "9.3(9)" and an interface whose modTs is
\* 2024-05-18T18:04:19.900+00:00 the interface line ends with that instant
\* plus 7 hours in epoch nanoseconds; for firmware "10.5(1)" or later it ends
\* with that instant without offset.
C12_OffsetBelowThresholdVersion ==
    /\ C12Case(v_93) => EndsWith(PIntfLine(n_eth1_1), <<" ">> \o v_T1_ns_7h)
    /\ \A ver \in {s_threshold, v_1010} :
          C12Case(ver) => EndsWith(PIntfLine(n_eth1_1), <<" ">> \o v_T1_ns)

\* the line of a switch on 9.3(9) carries the instant without the 7 hours
C12_NoOffsetFor93 ==
    /\ C12Case(v_93)
    /\ EndsWith(PIntfLine(n_eth1_1), <<" ">> \o v_T1_ns)

C13_WitnessUnknown ==
    /\ C12Case(<<>>)
    /\ EndsWith(PIntfLine(n_eth1_1), <<" ">> \o v_T1_ns)

(***************************************************************************)
(* The syntax of the lines (SpecP).  No tag or field value of the inputs   *)
(* holds a blank or a comma, so a line is read by splitting it.            *)
(***************************************************************************)
RECURSIVE SplitOn(_, _)
\* s.split(c)
SplitOn(s, c) ==
    IF \A i \in 1..Len(s) : s[i] # c THEN <<s>>
    ELSE LET i == CHOOSE j \in 1..Len(s) : s[j] = c /\ \A h \in 1..(j - 1) : s[h] # c
         IN  <<SubSeq(s, 1, i - 1)>> \o SplitOn(SubSeq(s, i + 1, Len(s)), c)

\* key=value with a key and a value
IsPair(item) ==
    LET kv == SplitOn(item, "=") IN Len(kv) = 2 /\ kv[1] # <<>> /\ kv[2] # <<>>
\* the measurement, then comma-joined tags
IsTagPart(part) ==
    LET items == SplitOn(part, ",")
    IN  /\ items[1] # <<>> /\ Len(SplitOn(items[1], "=")) = 1
        /\ \A i \in 2..Len(items) : IsPair(items[i])
\* comma-joined fields, one at least
IsFieldPart(part) ==
    LET items == SplitOn(part, ",") IN \A i \in 1..Len(items) : IsPair(items[i])
\* a timestamp: digits, one at least
IsTimestamp(part) == part # <<>> /\ \A i \in 1..Len(part) : IsDigit(part[i])

\* tags, one blank, fields, and a blank after the fields only with a timestamp
WellFormed(text) ==
    LET parts == SplitOn(text, " ")
    IN  /\ Len(parts) \in {2, 3}
        /\ IsTagPart(parts[1])
        /\ IsFieldPart(parts[2])
        /\ Len(parts) = 3 => IsTimestamp(parts[3])

\* the fields of the device line the record of the switch has
DeviceFields ==
    {"response_time", "model", "cpu_user", "cpu_kernel", "mem_total", "mem_used",
     "sys_ver", "kernel_uptime"} \cap DOMAIN PStats

\* the device line of the claim's example
v_device_example == <<"S","w","i","t","c","h","e","s",",","s","w","i","t","c","h","=","1","0",".","0",".","0",".","1"," ","c","p","u","_","u","s","e","r","=","1","2">>
v_12 == <<"1","2">>

C15_LinesWellFormed ==
    \A i \in 1..Len(POut.lines) :
        POut.lines[i].m # "Switches" => WellFormed(POut.lines[i].text)

\* an interface without modTs was printed: its line ends with a blank
C15_TrailingBlank ==
    /\ POut.printed
    /\ PModTs(n_eth1_2) = NoneVal
    /\ EndsWith(PIntfLine(n_eth1_2), <<"\"", " ">>)
\* a buffer instance whose first counter was the sentinel was printed: its
\* line has no blank
C15_BufferLineWithoutBlank ==
    /\ POut.printed
    /\ Len(PLines("SwitchBufferStats")) = 1
    /\ Len(SplitOn(PLines("SwitchBufferStats")[1].text, " ")) = 1

(***************************************************************************)
(* Burst lines (SpecP).                                                    *)
(***************************************************************************)
\* the BurstEvents stored on the interface record per_intf_dict
BurstsOf(per_intf_dict) == IF "burst" \in DOMAIN per_intf_dict THEN per_intf_dict["burst"] ELSE <<>>
\* the burst lines on stdout that carry the tag intf=k
BurstLinesOf(k) ==
    SelectSeq(PLines("SwitchBurst"),
              LAMBDA l : Contains(l.text, Tag(KeyText["intf"], k) \o <<",">>))

\* C16: the output holds exactly one burst line for every BurstEvent stored
\* on every interface of the switch, whatever else the interface carries
\* (queues, a watchdog dict, empty or not).
C16_OneLinePerBurstEvent ==
    POut.printed =>
        \A i \in 1..Len(PStats["intf"]) :
            Len(BurstLinesOf(PStats["intf"][i].k)) = Len(BurstsOf(PStats["intf"][i].v))

\* eth1/1 has BurstEvents and an empty watchdog dict, and the output, which
\* has its interface line, has no burst line
C16_BurstsDropped ==
    /\ POut.printed
    /\ BurstsOf(OGet(PStats["intf"], n_eth1_1)) # <<>>
    /\ SkipsBurst(OGet(PStats["intf"], n_eth1_1))
    /\ PLines("SwitchBurst") = <<>>

(***************************************************************************)
(* Buffer usage (SpecP).                                                   *)
(***************************************************************************)
\* the instance rows that went through parse_bufferpktstats
C17Rows == SelectSeq(fed, LAMBDA e : e.by = "parse_bufferpktstats")
\* buffer_usage of the switch
PBuffer == Sub(PStats, "buffer_usage")

\* C17: after the buffer extractor no stored counter holds the sentinel of
\* an unsupported counter, and the test is made counter by counter: of every
\* instance row that went through the extractor, each counter the row has
\* with a numeric value is stored with that value and each counter that is
\* absent or the sentinel is not stored.
C17_SentinelOmittedPerField ==
    /\ \A i \in 1..Len(PBuffer) : \A name \in DOMAIN PBuffer[i].v :
          ~Contains(Str(PBuffer[i].v[name]), s_N)
    /\ \A j \in 1..Len(C17Rows) :
          LET row == C17Rows[j].raw
          IN  /\ OHas(PBuffer, row["instance"])
              /\ \A f \in 1..Len(BufferFields) :
                    LET name == BufferFields[f][1]
                        key  == BufferFields[f][2]
                        d    == OGet(PBuffer, row["instance"])
                    IN  IF key \in DOMAIN row /\ row[key] # v_NA
                        THEN name \in DOMAIN d /\ d[name] = row[key]
                        ELSE name \notin DOMAIN d

\* a row with one counter unsupported and another counter numeric went
\* through the extractor
C17_Witness ==
    /\ \E j \in 1..Len(C17Rows) :
          /\ C17Rows[j].raw["max_cell_usage_drop_pg"] = v_NA
          /\ C17Rows[j].raw["max_cell_usage_no_drop_pg"] = v_3
    /\ PBuffer # <<>>
    /\ DOMAIN PBuffer[1].v = {"peak_cell_no_drop", "cell_count_drop_pg"}

(***************************************************************************)
(* Burst durations (SpecP).                                                *)
(***************************************************************************)
v_206 == <<"2","0","6">>
v_1470 == <<"1","4","7","0">>
v_2000000 == <<"2","0","0","0","0","0","0">>
v_206_46 == <<"2","0","6",".","4","6">>

\* the burst rows that went through parse_burstdetect
C18Rows == SelectSeq(fed, LAMBDA e : e.by = "parse_burstdetect")
\* the BurstEvents stored on eth1/1
C18Events == BurstsOf(OSub(PStats["intf"], n_eth1_1))
\* the cycle went past parse_burstdetect, which was given the one row of
\* the duration text
C18Given(duration) ==
    /\ pc # "parse_burstdetect"
    /\ Len(C18Rows) = 1
    /\ C18Rows[1].raw["duration"] = duration

\* C18: every duration stored in a BurstEvent is an integer number of
\* microseconds; "206.46 us" is stored as 206, "1.47 ms" as 1470 and "2 s"
\* as 2000000.
C18_DurationIntegerMicroseconds ==
    /\ \A i \in 1..Len(C18Events) :
          "duration" \in DOMAIN C18Events[i] =>
              \A j \in 1..Len(C18Events[i]["duration"]) : IsDigit(C18Events[i]["duration"][j])
    /\ C18Given(v_dur_us) => (Len(C18Events) = 1 /\ C18Events[1]["duration"] = v_206)
    /\ C18Given(v_dur_ms) => (Len(C18Events) = 1 /\ C18Events[1]["duration"] = v_1470)
    /\ C18Given(v_dur_s) => (Len(C18Events) = 1 /\ C18Events[1]["duration"] = v_2000000)

\* the event of a "206.46 us" row is stored with the text 206.46
C18_FractionStored ==
    /\ C18Given(v_dur_us)
    /\ Len(C18Events) = 1
    /\ C18Events[1]["duration"] = v_206_46
\* the events of a "1.47 ms" row and of a "2 s" row are stored as 1470 and 2000000
C18_OtherUnitsConverted ==
    \/ C18Given(v_dur_ms) /\ Len(C18Events) = 1 /\ C18Events[1]["duration"] = v_1470
    \/ C18Given(v_dur_s) /\ Len(C18Events) = 1 /\ C18Events[1]["duration"] = v_2000000

(***************************************************************************)
(* Identity normalization on a canonical key (SpecP).                      *)
(***************************************************************************)
\* C19: identity normalization is idempotent: whichever form an extractor
\* applies (the bracket extraction from a dn, the shortening of Ethernet to
\* eth, the case-folding of a command's name), a row that names the
\* interface by its canonical key eth1/1 resolves to eth1/1, and the
\* shortening and the case-folding leave every key of the map as it is.
C19_NormalizationIdempotent ==
    /\ \A i \in 1..Len(trace) :
          (trace[i].ev = "key" /\ trace[i].raw = n_eth1_1) => trace[i].key = n_eth1_1
    /\ \A k \in OKeys(PStats["intf"]) :
          Replace(k, s_Ethernet, s_eth) = k /\ PyLower(k) = k

\* the bracket extraction of parse_rmonIfHCIn turned eth1/1 into eth1/,
\* while the case-folding of parse_burstdetect can leave it as it is
C19_BracketCutsKey ==
    \E i \in 1..Len(trace) :
        /\ trace[i].ev = "key" /\ trace[i].by = "parse_rmonIfHCIn"
        /\ trace[i].raw = n_eth1_1
        /\ trace[i].key = SubSeq(n_eth1_1, 1, Len(n_eth1_1) - 1)
        /\ OHas(PStats["intf"], trace[i].key)
\* parse_burstdetect resolved the if-str eth1/1 to the key eth1/1
C19_FoldingKeepsKey ==
    \E i \in 1..Len(trace) :
        /\ trace[i].ev = "key" /\ trace[i].by = "parse_burstdetect"
        /\ trace[i].raw = n_eth1_1 /\ trace[i].key = n_eth1_1

(***************************************************************************)
(* Rows without an optional attribute (SpecP).                             *)
(***************************************************************************)
\* the optional attributes the extractors read, by extractor
C20Optional ==
    [parse_sysmgrShowVersion |-> {"nxosVersion", "kernelUptime"},
     parse_ethpmPhysIf |-> {"operSpeed", "operSt", "operStQual"},
     parse_lldpAdjEp |-> {"enCap", "sysDesc", "portIdV", "mgmtIp", "sysName"}]
\* the row e of fed lacks an optional attribute of its extractor
C20Lacks(e) ==
    /\ e.by \in DOMAIN C20Optional
    /\ ~(C20Optional[e.by] \subseteq DOMAIN e.raw)

\* C20: no extractor fails hard on a missing optional key: an extractor that
\* was given a row without one of its optional attributes (speed,
\* operational state, encapsulation, system description, peer port, uptime
\* text) returns normally, so the cycle never ends on such a row.
C20_MissingOptionalKeyTolerated ==
    (outcome[XSwitch] = "raised" /\ fed # <<>>) => ~C20Lacks(fed[Len(fed)])

\* parse_ethpmPhysIf raised on a row without operSpeed, and nothing was printed
C20_RaisedOnMissingKey ==
    /\ outcome[XSwitch] = "raised"
    /\ fed # <<>>
    /\ fed[Len(fed)].by = "parse_ethpmPhysIf"
    /\ "operSpeed" \notin DOMAIN fed[Len(fed)].raw
    /\ ~POut.printed
\* a row without operStQual went through parse_ethpmPhysIf and the cycle printed
C20_ToleratedKey ==
    /\ POut.printed
    /\ \E i \in 1..Len(fed) : fed[i].by = "parse_ethpmPhysIf" /\ "operStQual" \notin DOMAIN fed[i].raw

(***************************************************************************)
(* Lazy creation of the interface records (SpecX).                         *)
(***************************************************************************)
\* C21: an interface's record is created on first reference by whichever
\* extractor names it first (structured query, burst or watchdog): every
\* interface an extractor resolved has a record, and an extractor that runs
\* first, before any other, does not fail for want of an earlier one.
C21_CreatedOnFirstReference ==
    /\ \A i \in 1..Len(trace) : trace[i].ev = "key" => OHas(XIntf, trace[i].key)
    /\ Cardinality(called) = 1 => outcome[XSwitch] = "running"

\* the burst or the watchdog extractor ran first, resolved an interface and
\* raised because the map has no record of it
C21_RequiresEarlierExtractor ==
    /\ Cardinality(called) = 1
    /\ called \subseteq {"parse_burstdetect", "parse_pfcqueuedetail"}
    /\ outcome[XSwitch] = "raised"
    /\ \E i \in 1..Len(trace) : trace[i].ev = "key" /\ trace[i].key = n_eth1_1
    /\ ~OHas(XIntf, n_eth1_1)

\* the ingress-counters extractor ran first: it created the record, then
\* raised on the meta group only parse_intf creates
C21_IngressNeedsMeta ==
    /\ called = {"parse_rmonIfHCIn"}
    /\ outcome[XSwitch] = "raised"
    /\ OHas(XIntf, n_eth1_1)
    /\ "meta" \notin DOMAIN OGet(XIntf, n_eth1_1)

(***************************************************************************)
(* SpecB: one collection cycle of one switch in which the answers carry    *)
(* batches of rows: several rows of one interface, rows of two interfaces, *)
(* rows without an attribute.  The extractors run in the order of          *)
(* n9k_mo_dict; the cycle handles MaxRows rows at most.                    *)
(***************************************************************************)
v_telephone == <<"t","e","l","e","p","h","o","n","e">>
t_Ethernet1_2 == <<"E","t","h","e","r","n","e","t","1","/","2">>
t_Eth1_2 == <<"E","t","h","1","/","2">>
t_port_channel1 == <<"p","o","r","t","-","c","h","a","n","n","e","l","1">>
v_station == <<"s","t","a","t","i","o","n">>
v_portdesc == <<"I","n","t","e","r","f","a","c","e"," "," ","2","8"," ","a","s"," ","e","n","p","1","5","4","s","0","d","2","2">>

InitB == InitP

\* the rows the cycle may still be given
BRowsLeft == MaxRows - Cardinality({i \in 1..Len(fed) : fed[i].by # "parse_sysmgrShowVersion"})
\* an answer without rows, or a batch drawn from rowset
BAnswers(rowset) == {<<>>} \cup PayloadsOf(rowset, BRowsLeft)

B_parse_sysmgrShowVersion ==
    /\ pc = "parse_sysmgrShowVersion"
    /\ \E p \in {GoodImdata(ep_sysmgrShowVersion)} :
          PDone("parse_sysmgrShowVersion", AttrsOf(p, MoOf(ep_sysmgrShowVersion)),
                parse_sysmgrShowVersion(p, XAcc, MoOf(ep_sysmgrShowVersion)), "parse_intf")

\* the rows of two interfaces, and the row of eth1/1 without its description
\* or its administrative state
BIntfRows ==
    {IntfRow(n_eth1_1), IntfRow(n_eth1_2),
     Without(IntfRow(n_eth1_1), "descr"), Without(IntfRow(n_eth1_1), "adminSt")}

B_parse_intf ==
    /\ pc = "parse_intf"
    /\ \E p \in BAnswers(BIntfRows) :
          PDone("parse_intf", p, parse_intf(p, XAcc), "parse_rmonEtherStats")

BEtherRows ==
    {GoodImdata(ep_rmonEtherStats)[1], Without(GoodImdata(ep_rmonEtherStats)[1], "cRCAlignErrors")}

B_parse_rmonEtherStats ==
    /\ pc = "parse_rmonEtherStats"
    /\ \E p \in BAnswers(BEtherRows) :
          PDone("parse_rmonEtherStats", p, parse_rmonEtherStats(p, XAcc), "parse_rmonIfHCIn")

B_parse_rmonIfHCIn ==
    /\ pc = "parse_rmonIfHCIn"
    /\ \E p \in BAnswers({CounterRow(n_eth1_1, sfx_in, v_T1)}) :
          PDone("parse_rmonIfHCIn", p, parse_rmonIfHCIn(p, XAcc), "parse_ipqosQueuingStats")

BQueueRows ==
    {GoodImdata(ep_ipqosQueuingStats)[1], Without(GoodImdata(ep_ipqosQueuingStats)[1], "txBytes")}

B_parse_ipqosQueuingStats ==
    /\ pc = "parse_ipqosQueuingStats"
    /\ \E p \in BAnswers(BQueueRows) :
          PDone("parse_ipqosQueuingStats", p, parse_ipqosQueuingStats(p, XAcc), "parse_lldpAdjEp")

\* adjacencies of eth1/1: a switch, a host (station), a telephone
BLldpRows ==
    {GoodImdata(ep_lldpAdjEp)[1],
     [GoodImdata(ep_lldpAdjEp)[1] EXCEPT !.enCap = v_station] @@ [portDesc |-> v_portdesc],
     [GoodImdata(ep_lldpAdjEp)[1] EXCEPT !.enCap = v_telephone]}

B_parse_lldpAdjEp ==
    /\ pc = "parse_lldpAdjEp"
    /\ \E p \in BAnswers(BLldpRows) :
          PDone("parse_lldpAdjEp", p, parse_lldpAdjEp(p, XAcc), "parse_burstdetect")

v_dur_ns == <<"5","0","0"," ","n","s">>

\* burst events of eth1/1 and eth1/2, and two whose duration has no known
\* unit: minutes and nanoseconds
BBurstRows ==
    {BurstRow(t_Eth1_1, v_dur_us), BurstRow(t_Eth1_1, v_dur_ms), BurstRow(t_Eth1_2, v_dur_s),
     BurstRow(t_Eth1_1, v_dur_bad), BurstRow(t_Eth1_1, v_dur_ns)}

B_parse_burstdetect ==
    /\ pc = "parse_burstdetect"
    /\ \E p \in BAnswers(BBurstRows) :
          PDone("parse_burstdetect", p,
                IF p = <<>> THEN XAcc ELSE parse_burstdetect(BurstPayload(p), XAcc),
                "parse_pfcqueuedetail")

\* a watchdog row of the interface named by name_text in qos group grp
BPfcRow(name_text, grp) ==
    << PfcRow(name_text)[1],
       [PfcRow(name_text)[2] EXCEPT !.v =
           [ROW_qosgrp_stats |-> [QosStats["ROW_qosgrp_stats"] EXCEPT !["eq-qosgrp"] = grp]]] >>

\* watchdog rows of eth1/1 and eth1/2, of a port-channel, a row whose
\* statistics come before its name, and a row without the qos-group key
BPfcRows ==
    << BPfcRow(t_Ethernet1_1, v_3), BPfcRow(t_Ethernet1_2, v_1), BPfcRow(t_port_channel1, v_2),
       <<BPfcRow(t_Ethernet1_2, v_1)[2], BPfcRow(t_Ethernet1_2, v_1)[1]>>,
       <<PfcRow(t_Ethernet1_1)[1],
         [PfcRow(t_Ethernet1_1)[2] EXCEPT !.v = [ROW_qosgrp_stats |->
              Without(QosStats["ROW_qosgrp_stats"], "eq-qosgrp")]]>> >>

B_parse_pfcqueuedetail ==
    /\ pc = "parse_pfcqueuedetail"
    /\ \E ix \in BAnswers(1..Len(BPfcRows)) :
          \E p \in {[i \in 1..Len(ix) |-> BPfcRows[ix[i]]]} :
             PDone("parse_pfcqueuedetail", p,
                   IF ix = <<>> THEN XAcc ELSE parse_pfcqueuedetail(PfcPayload(p), XAcc),
                   "print")

\* main stores response_time, then prints the device
B_print_output_in_influxdb_lp ==
    /\ pc = "print"
    /\ stats_dict' = [stats_dict EXCEPT ![XSwitch] = Put(@, "response_time", v_0)]
    /\ \E out \in {final_print_string(switch_ip_text(XSwitch), stats_dict'[XSwitch])} :
          output' = [output EXCEPT ![XSwitch] = out]
    /\ pc' = "done"
    /\ UNCHANGED <<user_args, n9k_mo_dict, response_time_dict, cur, idx, auth_cookie, nxapi_ep,
                   dispatched, outcome, trace, called, fed, faults, time_output>>

NextB ==
    \/ B_parse_sysmgrShowVersion
    \/ B_parse_intf
    \/ B_parse_rmonEtherStats
    \/ B_parse_rmonIfHCIn
    \/ B_parse_ipqosQueuingStats
    \/ B_parse_lldpAdjEp
    \/ B_parse_burstdetect
    \/ B_parse_pfcqueuedetail
    \/ B_print_output_in_influxdb_lp

SpecB == InitB /\ [][NextB]_vars

(***************************************************************************)
(* Merging rows into an interface's record (SpecB).                        *)
(***************************************************************************)
BIntf == stats_dict[XSwitch]["intf"]

\* the dicts a row handed to the extractor named by was merged into, as they
\* are now, each with the (key, attribute) pairs the extractor copies
C22Merged(by, row) ==
    CASE by = "parse_intf" ->
           << <<Sub(OSub(BIntf, row["id"]), "data"), << <<"description", "descr">> >> >>,
              <<Sub(OSub(BIntf, row["id"]), "meta"),
                << <<"admin_state", "adminSt">>, <<"oper_state", "operSt">>,
                   <<"oper_mode", "mode">> >> >> >>
      [] by = "parse_rmonEtherStats" ->
           << <<Sub(OSub(BIntf, BracketId(row["dn"])), "data"), EtherStatsFields>> >>
      [] by = "parse_ipqosQueuingStats" ->
           << <<OSub(Sub(OSub(BIntf, BracketId(row["dn"])), "out_queue"), row["cmapName"]),
                QueueFields>> >>
      [] OTHER -> <<>>

\* C22: merges are additive: a field that a row gave a value still holds a
\* value after the rows that followed it; no later row that lacks the
\* attribute replaced it by None.
C22_MergesAdditive ==
    \A i \in 1..Len(fed) :
        LET merged == C22Merged(fed[i].by, fed[i].raw)
        IN  \A m \in 1..Len(merged) : \A j \in 1..Len(merged[m][2]) :
                merged[m][2][j][2] \in DOMAIN fed[i].raw
                => Get(merged[m][1], merged[m][2][j][1]) # NoneVal

\* two rows of eth1/1 went through parse_intf, the first with a description
\* and the second without: the description is None, and the cycle printed
C22_Clobbered ==
    /\ \E i, j \in 1..Len(fed) :
          /\ i < j
          /\ fed[i].by = "parse_intf" /\ fed[j].by = "parse_intf"
          /\ fed[i].raw["id"] = n_eth1_1 /\ fed[j].raw["id"] = n_eth1_1
          /\ "descr" \in DOMAIN fed[i].raw /\ "descr" \notin DOMAIN fed[j].raw
    /\ OGet(BIntf, n_eth1_1)["data"]["description"] = NoneVal
    /\ POut.printed

(***************************************************************************)
(* Order of the extractors of one interface (SpecP).                       *)
(***************************************************************************)
C23Sources == {"parse_intf", "parse_ethpmPhysIf", "parse_rmonIfHCIn"}

\* the rows the cycle handed to the extractor named by
C23Rows(by) ==
    LET mine == SelectSeq(fed, LAMBDA f : f.by = by)
    IN  [i \in 1..Len(mine) |-> mine[i].raw]

\* the extractor named by on its rows of this cycle
C23Apply(by, acc) ==
    CASE by = "parse_intf" -> parse_intf(C23Rows(by), acc)
      [] by = "parse_ethpmPhysIf" -> parse_ethpmPhysIf(C23Rows(by), acc)
      [] by = "parse_rmonIfHCIn" -> parse_rmonIfHCIn(C23Rows(by), acc)

\* an interface map without the modTs of its records
C23NoModTs(intf_dict) ==
    [i \in 1..Len(intf_dict) |->
        [k |-> intf_dict[i].k,
         v |-> IF "meta" \in DOMAIN intf_dict[i].v
               THEN Put(intf_dict[i].v, "meta", Without(intf_dict[i].v["meta"], "modTs"))
               ELSE intf_dict[i].v]]

\* the map, modTs apart, after extractor a and then extractor b ran on a map
\* without records, and whether an exception ended the two calls
C23Result(a, b) ==
    LET r == C23Apply(b, C23Apply(a, [st |-> Put(PStats, "intf", <<>>), raised |-> FALSE,
                                      trace |-> <<>>]))
    IN  [intf |-> C23NoModTs(r.st["intf"]), raised |-> r.raised]

\* C23: two extractors of different sources, each on its rows of the same
\* interfaces, leave the same map in either order, modTs apart.
C23_ExtractorsCommute ==
    \A a, b \in C23Sources :
        (a # b /\ C23Rows(a) # <<>> /\ C23Rows(b) # <<>>) => C23Result(a, b) = C23Result(b, a)

\* parse_intf and the ingress-counters extractor both ran on eth1/1: in this
\* order they merged their fields, in the other the ingress extractor raises
C23_OrderMatters ==
    /\ {"parse_intf", "parse_rmonIfHCIn"} \subseteq called
    /\ outcome[XSwitch] = "running"
    /\ ~C23Result("parse_intf", "parse_rmonIfHCIn").raised
    /\ C23Result("parse_rmonIfHCIn", "parse_intf").raised
    /\ C23Result("parse_intf", "parse_rmonIfHCIn").intf
          # C23Result("parse_rmonIfHCIn", "parse_intf").intf

(***************************************************************************)
(* Peer classification (SpecB).                                            *)
(***************************************************************************)
s_bridge == <<"b","r","i","d","g","e">>
s_router == <<"r","o","u","t","e","r">>

\* the last adjacency row of interface k that went through parse_lldpAdjEp
C24Last(k) ==
    LET mine == SelectSeq(fed, LAMBDA f : f.by = "parse_lldpAdjEp" /\ BracketId(f.raw["dn"]) = k)
    IN  mine[Len(mine)].raw

\* the peer type the rule gives a row: host for a station encapsulation or a
\* Linux system description, switch for a bridge or a router, else other
C24Rule(row) ==
    IF Contains(row["enCap"], v_station) \/ Contains(PyLower(row["sysDesc"]), s_linux)
    THEN s_host
    ELSE IF Contains(row["enCap"], s_bridge) \/ Contains(row["enCap"], s_router)
    THEN s_switch
    ELSE s_other

\* C24: once the peer extractor ran, the peer_type of an interface is host,
\* switch or other as the rule gives it for the interface's adjacency row,
\* and a record whose peer_type is other holds no peer, peer_intf or
\* peer_name.
C24_PeerTypeAndOtherHasNoPeer ==
    \A i \in 1..Len(BIntf) :
        LET meta == Sub(BIntf[i].v, "meta")
        IN  "peer_type" \in DOMAIN meta =>
              /\ meta["peer_type"] \in {s_host, s_switch, s_other}
              /\ meta["peer_type"] = C24Rule(C24Last(BIntf[i].k))
              /\ meta["peer_type"] = s_other =>
                    {"peer", "peer_intf", "peer_name"} \cap DOMAIN meta = {}

\* eth1/1 had the adjacency of a switch and then one of the type other: the
\* record says other and still names the switch as its peer; the cycle printed
C24_OtherKeepsPeer ==
    /\ OHas(BIntf, n_eth1_1)
    /\ Get(Sub(OGet(BIntf, n_eth1_1), "meta"), "peer_type") = s_other
    /\ Get(Sub(OGet(BIntf, n_eth1_1), "meta"), "peer") = v_ip
    /\ Get(Sub(OGet(BIntf, n_eth1_1), "meta"), "peer_intf") = n_eth1_1
    /\ POut.printed

(***************************************************************************)
(* The burst lists (SpecB).                                                *)
(***************************************************************************)
\* the burst extractor raised: the exception ended the cycle at its rows
C25Raised ==
    /\ outcome[XSwitch] = "raised"
    /\ fed # <<>> /\ fed[Len(fed)].by = "parse_burstdetect"

\* the duration a row with a recognised unit (us, ms, s) has in microseconds
C25Micros(duration) ==
    CASE duration = v_dur_us -> v_206_46
      [] duration = v_dur_ms -> v_1470
      [] duration = v_dur_s -> v_2000000
C25Recognised(row) == row["duration"] \in {v_dur_us, v_dur_ms, v_dur_s}

\* the events the burst rows of this cycle stand for on interface k, in the
\* order of the rows
C25Events(k) ==
    LET mine == SelectSeq(C23Rows("parse_burstdetect"),
                          LAMBDA r : C25Recognised(r) /\ C8Ident(PyLower(r["if-str"])) = k)
    IN  [i \in 1..Len(mine) |-> Put(BurstDict(mine[i]), "duration", C25Micros(mine[i]["duration"]))]

C25List(k) == IF "burst" \in DOMAIN OSub(BIntf, k) THEN OSub(BIntf, k)["burst"] ELSE <<>>

\* C25: the burst extractor appends one event per row to the list of the
\* interface the row names, in the order of the rows; a row whose unit is
\* not recognised appends nothing, raises nothing and does not keep the
\* rows after it from being appended.
C25_OneEventPerRowInOrder ==
    /\ ~C25Raised
    /\ \A k \in {n_eth1_1, n_eth1_2} : C25List(k) = C25Events(k)

\* a row in nanoseconds came before a row in microseconds, both of eth1/1,
\* which has a record: the extractor raised and the list has no event
C25_UnknownUnitRaises ==
    /\ C25Raised
    /\ OHas(BIntf, n_eth1_1)
    /\ \E i, j \in 1..Len(fed) :
          /\ i < j
          /\ fed[i].by = "parse_burstdetect" /\ fed[i].raw["duration"] = v_dur_ns
          /\ fed[j].by = "parse_burstdetect" /\ fed[j].raw["duration"] = v_dur_us
    /\ C25List(n_eth1_1) = <<>>
    /\ C25Events(n_eth1_1) # <<>>

\* a row in minutes came before a row in microseconds: only the second is
\* in the list
C25_UnknownUnitSkipped ==
    /\ ~C25Raised
    /\ \E i, j \in 1..Len(fed) :
          /\ i < j
          /\ fed[i].by = "parse_burstdetect" /\ fed[i].raw["duration"] = v_dur_bad
          /\ fed[j].by = "parse_burstdetect" /\ fed[j].raw["duration"] = v_dur_us
    /\ Len(C25List(n_eth1_1)) = 1
    /\ C25List(n_eth1_1) = C25Events(n_eth1_1)

(***************************************************************************)
(* The timestamp of a burst line (SpecP).                                  *)
(***************************************************************************)
\* 2024/04/30 09:05:33:777848 in epoch nanoseconds, and 7 hours later
v_peak_ns == <<"1","7","1","4","4","6","7","9","3","3","7","7","7","8","4","8","0","0","0">>
v_peak_ns_7h == <<"1","7","1","4","4","9","3","1","3","3","7","7","7","8","4","8","0","0","0">>

\* every printed burst line of an event that has a peak-time ends with ts,
\* the line of the j-th event of an interface being its j-th burst line
C26Ends(ts) ==
    POut.printed =>
        \A i \in 1..Len(PStats["intf"]) :
            LET per_intf_dict == PStats["intf"][i].v
                lines == BurstLinesOf(PStats["intf"][i].k)
            IN  ~SkipsBurst(per_intf_dict) =>
                  \A j \in 1..Len(BurstsOf(per_intf_dict)) :
                      "peak-time" \in DOMAIN BurstsOf(per_intf_dict)[j]
                      => EndsWith(lines[j].text, <<" ">> \o ts)

\* C26 as stated: the timestamp of a burst line is its peak-time in epoch
\* nanoseconds, 7 hours later when the adjustment of modTs applies to the
\* firmware of the switch, and the peak-time itself when it does not.
C26_BurstOffsetAsModTs ==
    C26Ends(IF ModTsHours(SysVerOf(PStats)) = TZ_HOURS THEN v_peak_ns_7h ELSE v_peak_ns)

\* C26: the timestamp of a burst line is its peak-time in epoch nanoseconds;
\* no offset is added, whether the adjustment of modTs applies to the
\* firmware of the switch or not.
C26_BurstPeakTimeWithoutOffset == C26Ends(v_peak_ns)

\* a switch on 10.4(3): the interface line carries modTs 7 hours later, the
\* burst line of the same interface carries the peak-time as it is
C26_Witness ==
    /\ C12Case(v_nxos)
    /\ EndsWith(PIntfLine(n_eth1_1), <<" ">> \o v_T1_ns_7h)
    /\ BurstLinesOf(n_eth1_1) # <<>>
    /\ EndsWith(BurstLinesOf(n_eth1_1)[1].text, <<" ">> \o v_peak_ns)

(***************************************************************************)
(* The tags of an interface line (SpecB).                                  *)
(***************************************************************************)
\* the tags of a line: the comma-joined items after the measurement
C27Tags(text) == Tail(SplitOn(SplitOn(text, " ")[1], ","))

\* C27: in every interface line every tag has a value, which is neither
\* empty nor the text of an absent value (None), and no tag is named modTs.
C27_NoNullTagNoModTsTag ==
    POut.printed =>
        \A l \in 1..Len(PLines("SwitchIntfStats")) :
            LET tags == C27Tags(PLines("SwitchIntfStats")[l].text)
            IN  \A t \in 1..Len(tags) :
                    LET kv == SplitOn(tags[t], "=")
                    IN  /\ Len(kv) = 2
                        /\ kv[2] # <<>> /\ kv[2] # s_None
                        /\ kv[1] # KeyText["modTs"]

\* the row of eth1/1 had no adminSt and the interface has a modTs: its line
\* carries the tag admin_state=None, and no tag modTs
C27_NoneTag ==
    /\ POut.printed
    /\ OHas(BIntf, n_eth1_1)
    /\ PModTs(n_eth1_1) = v_T1
    /\ Get(OGet(BIntf, n_eth1_1)["meta"], "admin_state") = NoneVal
    /\ Contains(PIntfLine(n_eth1_1), Tag(KeyText["admin_state"], s_None) \o <<",">>)
    /\ ~Contains(PIntfLine(n_eth1_1), <<",">> \o KeyText["modTs"] \o <<"=">>)

(***************************************************************************)
(* The response time summary (Spec).                                       *)
(***************************************************************************)
\* the entries of the summary made for device d
EntriesOf(d) == SelectSeq(time_output, LAMBDA e : e.switch_ip = d)

\* C28: once main ended, the summary holds for every device of the input
\* file, the first and the later ones alike, one entry per timing record
\* stored for the device, made from that record.
C28_SummaryCoversEveryDevice ==
    pc = "end" =>
        \A d \in DeviceSet :
            /\ Len(EntriesOf(d)) = Len(response_time_dict[d])
            /\ \A k \in 1..Len(EntriesOf(d)) : EntriesOf(d)[k].record = response_time_dict[d][k]

\* both devices were collected and printed, the second has as many timing
\* records as the first, and the summary has entries of the first only
C28_LaterDeviceLeftOut ==
    /\ pc = "end"
    /\ \A d \in DeviceSet : outcome[d] = "completed" /\ output[d].printed
    /\ Len(response_time_dict[Devices[2]]) = Len(n9k_mo_dict)
    /\ Len(EntriesOf(Devices[1])) = Len(n9k_mo_dict)
    /\ EntriesOf(Devices[2]) = <<>>

\* the request the timing record rec was taken for
ProbeOf(rec) == dispatched[rec.nxapi_start + 1]

\* C29: for every device the timing record at position k of its list is the
\* record of the k-th probe of n9k_mo_dict, also when an earlier probe failed
\* and stored none, and every entry of the summary is labelled with the
\* command set its record was taken for.
C29_RecordAtPositionOfItsProbe ==
    /\ \A d \in DeviceSet : \A k \in 1..Len(response_time_dict[d]) :
          /\ ProbeOf(response_time_dict[d][k]).sw = d
          /\ ProbeOf(response_time_dict[d][k]).endpoint = n9k_mo_dict[k].k
    /\ \A e \in 1..Len(time_output) :
          time_output[e].cmd_str = MoOf(ProbeOf(time_output[e].record).endpoint)

\* a query of the first device was answered without rows and stored no
\* record: the records of the probes after it are one position early, and
\* the summary labels them with the command set before theirs
C29_ShiftedAfterFailedProbe ==
    /\ pc = "end"
    /\ outcome[Devices[1]] = "completed"
    /\ \E i \in 1..Len(dispatched) :
          /\ dispatched[i].sw = Devices[1] /\ dispatched[i].rsp = "none" /\ ~dispatched[i].timed
    /\ \E k \in 1..Len(response_time_dict[Devices[1]]) :
          ProbeOf(response_time_dict[Devices[1]][k]).endpoint = n9k_mo_dict[k + 1].k
    /\ \E e \in 1..Len(time_output) :
          /\ time_output[e].switch_ip = Devices[1]
          /\ time_output[e].cmd_str # MoOf(ProbeOf(time_output[e].record).endpoint)

(***************************************************************************)
(* The watchdog rows (SpecB).                                              *)
(***************************************************************************)
\* the watchdog extractor raised: the exception ended the cycle at its rows
C30Raised ==
    /\ outcome[XSwitch] = "raised"
    /\ fed # <<>> /\ fed[Len(fed)].by = "parse_pfcqueuedetail"

\* the item of a watchdog row that names its interface, and the one that
\* holds its statistics
C30Name(row) == row[CHOOSE i \in 1..Len(row) : row[i].type = "str"].v
C30Stats(row) == row[CHOOSE i \in 1..Len(row) : row[i].type = "table"].v["ROW_qosgrp_stats"]
\* the interface a watchdog row names, None when it names no Ethernet interface
C30Intf(row) ==
    IF Contains(C30Name(row), s_Eth) THEN C8Ident(PfcIntf(C30Name(row))) ELSE NoneVal

\* the watchdog fields the row alone gives its interface
C30Fields(row) ==
    LET qos == C30Stats(row)
        wd1 == IF "eq-qosgrp" \in DOMAIN qos THEN OPut(<<>>, s_qosgrp, Str(qos["eq-qosgrp"])) ELSE <<>>
    IN  WdRows(wd1, qos["TABLE_qosgrp_stats_entry"]["ROW_qosgrp_stats_entry"])

\* the watchdog rows of this cycle
C30Rows == C23Rows("parse_pfcqueuedetail")
\* the last of them that names interface k, 0 when none does
C30LastOf(k) ==
    IF \E i \in 1..Len(C30Rows) : C30Intf(C30Rows[i]) = k
    THEN CHOOSE i \in 1..Len(C30Rows) :
            C30Intf(C30Rows[i]) = k /\ \A j \in (i + 1)..Len(C30Rows) : C30Intf(C30Rows[j]) # k
    ELSE 0

\* C30: the watchdog fields of an interface are those of the row that names
\* it, whatever rows are around it: a row that names no Ethernet interface,
\* or whose statistics come before its name, writes into no other
\* interface, and a row without the qos-group key raises nothing and keeps
\* no row after it from being stored.
C30_FieldsUnderTheRowsInterface ==
    /\ ~C30Raised
    /\ \A i \in 1..Len(BIntf) :
          "pfcwd" \in DOMAIN BIntf[i].v =>
              /\ C30LastOf(BIntf[i].k) # 0
              /\ BIntf[i].v["pfcwd"] = C30Fields(C30Rows[C30LastOf(BIntf[i].k)])

\* the row of eth1/1 (qos group 3) came before the row of a port-channel
\* (qos group 2): eth1/1 holds the qos group of the port-channel
C30_ForeignRowWritten ==
    /\ ~C30Raised
    /\ Len(C30Rows) = 2
    /\ C30Intf(C30Rows[1]) = n_eth1_1 /\ Get(C30Stats(C30Rows[1]), "eq-qosgrp") = v_3
    /\ C30Intf(C30Rows[2]) = NoneVal /\ Get(C30Stats(C30Rows[2]), "eq-qosgrp") = v_2
    /\ OHas(BIntf, n_eth1_1)
    /\ "pfcwd" \in DOMAIN OGet(BIntf, n_eth1_1)
    /\ OGet(OGet(BIntf, n_eth1_1)["pfcwd"], s_qosgrp) = v_2
    /\ pc = "done" /\ POut.printed

\* the statistics of the row of eth1/2 (qos group 1) came before its name,
\* after the row of eth1/1: they are stored under eth1/1
C30_TableBeforeName ==
    /\ Len(C30Rows) = 2
    /\ C30Intf(C30Rows[1]) = n_eth1_1 /\ C30Intf(C30Rows[2]) = n_eth1_2
    /\ C30Rows[2][1].type = "table"
    /\ OHas(BIntf, n_eth1_1)
    /\ "pfcwd" \in DOMAIN OGet(BIntf, n_eth1_1)
    /\ OGet(OGet(BIntf, n_eth1_1)["pfcwd"], s_qosgrp) = v_1

\* the first row of the answer names no Ethernet interface: the extractor raised
C30_UnboundRaises ==
    /\ C30Raised
    /\ C30Rows # <<>> /\ C30Intf(C30Rows[1]) = NoneVal

\* a row of eth1/1 without the qos-group key came before a full row of
\* eth1/1: nothing was raised and the second row is stored
C30_MissingKeyTolerated ==
    /\ ~C30Raised
    /\ Len(C30Rows) = 2
    /\ C30Intf(C30Rows[1]) = n_eth1_1 /\ "eq-qosgrp" \notin DOMAIN C30Stats(C30Rows[1])
    /\ C30Intf(C30Rows[2]) = n_eth1_1
    /\ OHas(BIntf, n_eth1_1)
    /\ "pfcwd" \in DOMAIN OGet(BIntf, n_eth1_1)
    /\ OGet(BIntf, n_eth1_1)["pfcwd"] = C30Fields(C30Rows[2])
    /\ OHas(OGet(BIntf, n_eth1_1)["pfcwd"], s_qosgrp)

============================================================================
